---- MODULE Spec2Model ----
(***************************************************************************)
(* The streaming /combine handler of the dynamic multi-provider pipeline   *)
(* (classify -> two base providers in parallel -> synthesize or refine),   *)
(* modelled as a state machine over one request at a time (Spec, and       *)
(* SpecLive with its scheduling), with the non-streaming handler           *)
(* (SpecJson), the batch runner (SpecBatch) and the helpers called on      *)
(* their own (SpecHelpers) over the same variables.                        *)
(*                                                                         *)
(* Text is a sequence of tokens (strings); "" is the empty sequence.       *)
(***************************************************************************)
EXTENDS Integers, Sequences, FiniteSets, TLC

VARIABLES
    req,                 \* req.body: prompt, constraints, chatHistory
    pc,                  \* where the handler is
    httpStatus,          \* 0 while no status was set, 400 for the JSON rejection
    ended,               \* res.end() was called, or res.json() has answered
    json,                \* the bodies res.json() sent, in order
    events,              \* what sendEvent wrote to the response, in order
    calls,               \* the provider invocations made, in order
    registry,            \* the DYNAMIC_PIPELINES object
    historyForPrompting, \* chatHistory.slice(0, -1)
    classifier,          \* the classifier call: idle, running, returned, raised
    classifierAnswer,    \* classificationResponse, <<>> until the call settles
    intent,              \* "none" until the classifier answer is parsed
    gptResult,
    geminiResult,
    gptFailed,
    geminiFailed,
    taskA,               \* gptStreamPromise: idle, running, completed, failed
    taskB,               \* geminiStreamPromise
    producedA,           \* the chunks backend A yielded so far
    producedB,           \* the chunks backend B yielded so far
    synthesisPrompt,
    fallbackLog,
    synth,               \* the synthesizer stream: idle, running, completed, failed
    producedS,           \* the chunks the synthesizer yielded so far
    batch,               \* the batch runner: its test cases, cache and calls
    evaluated            \* the last helper call made on its own: its
                         \* arguments before and after, and its result

vars == << req, pc, httpStatus, ended, json, events, calls, registry,
           historyForPrompting, classifier, classifierAnswer, intent,
           gptResult, geminiResult,
           gptFailed, geminiFailed, taskA, taskB, producedA, producedB,
           synthesisPrompt, fallbackLog, synth, producedS, batch, evaluated >>

(***************************************************************************)
(* Bounds of the model.                                                    *)
(***************************************************************************)
MaxChunks == 2       \* chunks a base backend yields before it settles
MaxSynthChunks == 2  \* chunks the synthesizer yields before it settles
MaxAnswerLen == 3    \* tokens of a classifier answer, where all are drawn
MaxTurns == 2        \* turns of a history handed to a helper on its own
MaxTests == 2        \* test cases of a batch run

(***************************************************************************)
(* Text helpers (String.prototype methods on token sequences).             *)
(***************************************************************************)
Whitespace == {" ", "\n"}

RECURSIVE TrimStart(_)
TrimStart(t) ==
    IF t # <<>> /\ Head(t) \in Whitespace THEN TrimStart(Tail(t)) ELSE t

RECURSIVE TrimEnd(_)
TrimEnd(t) ==
    IF t # <<>> /\ t[Len(t)] \in Whitespace
    THEN TrimEnd(SubSeq(t, 1, Len(t) - 1))
    ELSE t

Trim(t) == TrimEnd(TrimStart(t))

\* t.split(sep): always at least one (possibly empty) piece
RECURSIVE SplitAcc(_, _, _)
SplitAcc(t, sep, cur) ==
    IF t = <<>> THEN << cur >>
    ELSE IF Head(t) = sep THEN << cur >> \o SplitAcc(Tail(t), sep, <<>>)
    ELSE SplitAcc(Tail(t), sep, Append(cur, Head(t)))

Split(t, sep) == SplitAcc(t, sep, <<>>)

\* pieces.join(sep)
RECURSIVE Join(_, _)
Join(pieces, sep) ==
    IF pieces = <<>> THEN <<>>
    ELSE IF Len(pieces) = 1 THEN pieces[1]
    ELSE pieces[1] \o << sep >> \o Join(Tail(pieces), sep)

\* the tokens with lower-case letters, and their upper-case forms
UpperToken(w) ==
    CASE w = "creative"        -> "CREATIVE"
      [] w = "Creative"        -> "CREATIVE"
      [] w = "factual"         -> "FACTUAL"
      [] w = "Factual"         -> "FACTUAL"
      [] w = "Classification:" -> "CLASSIFICATION:"
      [] w = "Reasoning:"      -> "REASONING:"
      [] w = "Uncreative"      -> "UNCREATIVE"
      [] w = "r1"              -> "R1"
      [] w = "r2"              -> "R2"
      [] w = "gpt-4o"          -> "GPT-4O"
      [] w = ": OpenAI API call failed for model "
                               -> ": OPENAI API CALL FAILED FOR MODEL "
      [] OTHER                 -> w

ToUpperCase(t) == [i \in DOMAIN t |-> UpperToken(t[i])]

\* the tokens that hold a searched word within a longer one
TokenIncludes(tok, w) ==
    \/ tok = w
    \/ << tok, w >> \in { << "UNCREATIVE", "CREATIVE" >> }

\* the text is compared as a whole
IncludesWholeText(t, w) == t = << w >>

Includes(t, w) == \E i \in DOMAIN t : TokenIncludes(t[i], w)

\* t.replace(w, ''): the first occurrence only
RECURSIVE ReplaceFirst(_, _)
ReplaceFirst(t, w) ==
    IF t = <<>> THEN <<>>
    ELSE IF Head(t) = w THEN Tail(t)
    ELSE << Head(t) >> \o ReplaceFirst(Tail(t), w)

(***************************************************************************)
(* Configuration.                                                          *)
(***************************************************************************)
CLASSIFIER_MODEL == "gpt-4o"

\* both intents registered with the FACTUAL entry
PIPELINES_ONE_FOR_ALL ==
    [ FACTUAL |->
        [ name   |-> "Factual Pipeline (SOTA Base -> Quick Synth)",
          config |-> [ gpt |-> "gpt-5", gemini |-> "gemini-2.5-pro",
                       synthesizer |-> "gpt-4o" ] ],
      CREATIVE |->
        [ name   |-> "Factual Pipeline (SOTA Base -> Quick Synth)",
          config |-> [ gpt |-> "gpt-5", gemini |-> "gemini-2.5-pro",
                       synthesizer |-> "gpt-4o" ] ] ]

DYNAMIC_PIPELINES ==
    [ FACTUAL |->
        [ name   |-> "Factual Pipeline (SOTA Base -> Quick Synth)",
          config |-> [ gpt |-> "gpt-5", gemini |-> "gemini-2.5-pro",
                       synthesizer |-> "gpt-4o" ] ],
      CREATIVE |->
        [ name   |-> "Creative Pipeline (SOTA Base -> SOTA Synth)",
          config |-> [ gpt |-> "gpt-5", gemini |-> "gemini-2.5-pro",
                       synthesizer |-> "gemini-2.5-pro" ] ] ]

\* synthesizerModel.startsWith('gemini')
StartsWithGemini(modelName) == modelName \in { "gemini-2.5-pro" }

(***************************************************************************)
(* Prompt composition.                                                     *)
(***************************************************************************)
RoleLabel(turn) == IF turn.role = "user" THEN "User" ELSE "Assistant"

formatChatHistory(history) ==
    IF history = <<>> THEN << "No previous conversation." >>
    ELSE Join([i \in DOMAIN history |->
                 << RoleLabel(history[i]), ": " >> \o history[i].content],
              "\n")

\* the clause is written whatever the constraint is
ConstraintInstructionAlways(constraints) ==
    << "CRITICAL INSTRUCTION: Adhere to this constraint: " >>
    \o constraints.text

ConstraintInstruction(constraints) ==
    IF constraints.present /\ constraints.text # <<>>
    THEN << "CRITICAL INSTRUCTION: Adhere to this constraint: " >>
         \o constraints.text
    ELSE <<>>

getSynthesisPrompt(prompt, gptResponse, geminiResponse, constraints, chatHistory) ==
    << "You are an expert synthesizer.", "Conversation History:" >>
    \o formatChatHistory(chatHistory)
    \o << "User's Latest Prompt:" >> \o prompt
    \o << "Draft Response A:" >> \o gptResponse
    \o << "Draft Response B:" >> \o geminiResponse
    \o ConstraintInstruction(constraints)
    \o << "Synthesize the two drafts. Final Response:" >>

getRefinementPrompt(prompt, singleResponse, constraints, chatHistory) ==
    << "You are an expert editor.", "Conversation History:" >>
    \o formatChatHistory(chatHistory)
    \o << "User's Latest Prompt:" >> \o prompt
    \o << "Draft Response to Refine:" >> \o singleResponse
    \o ConstraintInstruction(constraints)
    \o << "Rewrite the draft. Final Response:" >>

getClassificationPrompt(prompt, chatHistory) ==
    << "Analyze the user's LATEST prompt.", "Conversation History:" >>
    \o formatChatHistory(chatHistory)
    \o << "User's Latest Prompt:" >> \o prompt
    \o << "Reasoning:", "\n", "Classification:" >>

(***************************************************************************)
(* History translation.                                                    *)
(***************************************************************************)
\* the turns are returned newest first
convertHistoryForApiNewestFirst(history, apiType) ==
    IF apiType = "openai"
    THEN [i \in DOMAIN history |->
            [ role |-> history[Len(history) + 1 - i].role,
              content |-> history[Len(history) + 1 - i].content ]]
    ELSE IF apiType = "gemini"
    THEN [i \in DOMAIN history |->
            [ role  |-> history[Len(history) + 1 - i].role,
              parts |-> << [ text |-> history[Len(history) + 1 - i].content ] >> ]]
    ELSE <<>>

convertHistoryForApi(history, apiType) ==
    IF apiType = "openai"
    THEN [i \in DOMAIN history |->
            [ role |-> history[i].role, content |-> history[i].content ]]
    ELSE IF apiType = "gemini"
    THEN [i \in DOMAIN history |->
            [ role  |-> history[i].role,
              parts |-> << [ text |-> history[i].content ] >> ]]
    ELSE <<>>

\* the whole history is kept, the last turn included
SliceKeepsAll(history) == history

\* chatHistory.slice(0, -1)
SliceDropLast(history) ==
    IF history = <<>> THEN <<>> ELSE SubSeq(history, 1, Len(history) - 1)

(***************************************************************************)
(* The inputs: requests, classifier answers, backend chunks.               *)
(***************************************************************************)
U1 == [ role |-> "user", content |-> << "h1" >> ]
A1 == [ role |-> "assistant", content |-> << "h2" >> ]
U2 == [ role |-> "user", content |-> << "p" >> ]

\* chatHistory: absent, or an array of turns
ChatHistories ==
    { [ present |-> FALSE, turns |-> <<>> ] }
    \cup { [ present |-> TRUE, turns |-> h ] :
             h \in { <<>>, << U1, A1, U2 >> } }

\* constraints: absent, '' or a text
ConstraintInputs ==
    { [ present |-> FALSE, text |-> <<>> ],
      [ present |-> TRUE,  text |-> <<>> ],
      [ present |-> TRUE,  text |-> << "c" >> ] }

\* the body of a request: the prompt is missing or empty, or it is not
Requests ==
    [ prompt : { <<>>, << "p" >> },
      constraints : ConstraintInputs,
      chatHistory : ChatHistories ]

\* req while the server waits for a request
NoRequest ==
    [ prompt |-> <<>>,
      constraints |-> [ present |-> FALSE, text |-> <<>> ],
      chatHistory |-> [ present |-> FALSE, turns |-> <<>> ] ]

\* what the classifier backend does: it raises, or it answers
ClassifierOutcomes ==
    { [ raised |-> TRUE, content |-> <<>> ] }
    \cup { [ raised |-> FALSE, content |-> c ] :
             c \in { << "Reasoning:", " ", "r1", "\n",
                        "Classification:", " ", "creative", "\n" >>,
                     << "r2", "\n", "FACTUAL" >> } }

\* what the k-th chunk of backend A's stream can be: a delta with content,
\* or one without
AChunksAt(k) ==
    { [ hasContent |-> TRUE,  content |-> << "a" \o ToString(k) >> ],
      [ hasContent |-> FALSE, content |-> <<>> ] }

\* the k-th chunk of backend B's stream
BChunkAt(k) == << "b" \o ToString(k) >>

\* what the k-th chunk of the synthesizer's stream can be: every second
\* chunk carries no content
SChunksAt(k) ==
    { [ hasContent |-> (k % 2 = 1),
        content    |-> IF k % 2 = 1 THEN << "s" \o ToString(k) >> ELSE <<>> ] }

\* the fragment is dropped instead of forwarded
DeltaContentDropped(chunk) == <<>>

\* chunk.choices[0]?.delta?.content || ""
DeltaContent(chunk) == IF chunk.hasContent THEN chunk.content ELSE <<>>

(***************************************************************************)
(* The request handler.                                                    *)
(***************************************************************************)
\* the event is written ahead of the earlier ones
SendEventPrepended(evs, event, data) ==
    << [ event |-> event, data |-> data ] >> \o evs

SendEvent(evs, event, data) == Append(evs, [ event |-> event, data |-> data ])

\* getGptResponse: the content, or the error text when the call raised
getGptResponse(outcome, modelName) ==
    IF outcome.raised
    THEN << "ERROR", ": OpenAI API call failed for model ", modelName, "." >>
    ELSE outcome.content

ClassifierLines(classificationResponse) ==
    Split(Trim(classificationResponse), "\n")

\* the classification is read from the first line
FinalClassificationFirstLine(classificationResponse) ==
    LET lines == ClassifierLines(classificationResponse)
    IN  ToUpperCase(Trim(lines[1]))

FinalClassification(classificationResponse) ==
    LET lines == ClassifierLines(classificationResponse)
    IN  ToUpperCase(Trim(lines[Len(lines)]))

Reasoning(classificationResponse) ==
    LET lines == ClassifierLines(classificationResponse)
        rest  == SubSeq(lines, 1, Len(lines) - 1)
    IN  Trim(ReplaceFirst(Join(rest, " "), "Reasoning:"))

IntentOf(classificationResponse) ==
    IF Includes(FinalClassification(classificationResponse), "CREATIVE")
    THEN "CREATIVE"
    ELSE "FACTUAL"

Call(role, api, modelName, history, prompt, stream) ==
    [ role |-> role, api |-> api, model |-> modelName, history |-> history,
      prompt |-> prompt, stream |-> stream ]

\* batch before main() runs; evaluated before any helper call
NoBatch == [ started |-> FALSE ]
NotEvaluated == [ fn |-> "none" ]

\* the server listens: no request is being handled
Init ==
    /\ req = NoRequest
    /\ pc = "listening"
    /\ httpStatus = 0
    /\ ended = FALSE
    /\ json = <<>>
    /\ events = <<>>
    /\ calls = <<>>
    /\ registry = DYNAMIC_PIPELINES
    /\ historyForPrompting = <<>>
    /\ classifier = "idle"
    /\ classifierAnswer = <<>>
    /\ intent = "none"
    /\ gptResult = <<>>
    /\ geminiResult = <<>>
    /\ gptFailed = FALSE
    /\ geminiFailed = FALSE
    /\ taskA = "idle"
    /\ taskB = "idle"
    /\ producedA = <<>>
    /\ producedB = <<>>
    /\ synthesisPrompt = <<>>
    /\ fallbackLog = <<>>
    /\ synth = "idle"
    /\ producedS = <<>>
    /\ batch = NoBatch
    /\ evaluated = NotEvaluated

\* the arriving request re-registers the FACTUAL synthesizer
ReceiveRegisters(r) ==
    /\ pc = "listening"
    /\ req' = r
    /\ pc' = "received"
    /\ registry' = [registry EXCEPT !.FACTUAL.config.synthesizer = "gpt-5"]
    /\ UNCHANGED << httpStatus, ended, events, calls,
                    historyForPrompting, json, classifier, classifierAnswer,
                    intent, gptResult, geminiResult, gptFailed, geminiFailed,
                    taskA, taskB, producedA, producedB, synthesisPrompt,
                    fallbackLog, synth, producedS >>
    /\ UNCHANGED << batch, evaluated >>

\* a POST /combine arrives with body r
Receive(r) ==
    /\ pc = "listening"
    /\ req' = r
    /\ pc' = "received"
    /\ UNCHANGED << httpStatus, ended, events, calls, registry,
                    historyForPrompting, json, classifier, classifierAnswer,
                    intent, gptResult, geminiResult, gptFailed, geminiFailed,
                    taskA, taskB, producedA, producedB, synthesisPrompt,
                    fallbackLog, synth, producedS >>
    /\ UNCHANGED << batch, evaluated >>

\* the handler without the test of the prompt
StartNoValidation ==
    /\ pc = "received"
    /\ IF ~req.chatHistory.present
       THEN /\ httpStatus' = 200
            /\ events' = SendEvent(events, "error",
                   [ message |-> << "An unexpected error occurred: ",
                                    "Cannot read properties of undefined" >> ])
            /\ ended' = TRUE
            /\ pc' = "closed"
            /\ UNCHANGED << json, calls, historyForPrompting, classifier >>
       ELSE /\ httpStatus' = 200
            /\ historyForPrompting' = SliceDropLast(req.chatHistory.turns)
            /\ events' = SendEvent(events, "status",
                   [ message |-> "Classifying prompt intent..." ])
            /\ calls' = Append(calls,
                   Call("classifier", "openai", CLASSIFIER_MODEL, <<>>,
                        getClassificationPrompt(req.prompt,
                            SliceDropLast(req.chatHistory.turns)), FALSE))
            /\ classifier' = "running"
            /\ ended' = FALSE
            /\ pc' = "classifying"
            /\ UNCHANGED json
    /\ UNCHANGED << req, registry, classifierAnswer, intent, gptResult,
                    geminiResult, gptFailed, geminiFailed, taskA, taskB,
                    producedA, producedB, synthesisPrompt, fallbackLog, synth,
                    producedS >>
    /\ UNCHANGED << batch, evaluated >>

\* the handler up to its first await: validation, headers, the history
\* prefix, the first status event and the classifier call
Start ==
    /\ pc = "received"
    /\ IF req.prompt = <<>>
       THEN /\ httpStatus' = 400
            /\ json' = Append(json, [ error |-> "Prompt is required." ])
            /\ ended' = TRUE
            /\ pc' = "rejected"
            /\ UNCHANGED << events, calls, historyForPrompting, classifier >>
       ELSE IF ~req.chatHistory.present
       THEN /\ httpStatus' = 200
            /\ events' = SendEvent(events, "error",
                   [ message |-> << "An unexpected error occurred: ",
                                    "Cannot read properties of undefined" >> ])
            /\ ended' = TRUE
            /\ pc' = "closed"
            /\ UNCHANGED << json, calls, historyForPrompting, classifier >>
       ELSE /\ httpStatus' = 200
            /\ historyForPrompting' = SliceDropLast(req.chatHistory.turns)
            /\ events' = SendEvent(events, "status",
                   [ message |-> "Classifying prompt intent..." ])
            /\ calls' = Append(calls,
                   Call("classifier", "openai", CLASSIFIER_MODEL, <<>>,
                        getClassificationPrompt(req.prompt,
                            SliceDropLast(req.chatHistory.turns)), FALSE))
            /\ classifier' = "running"
            /\ ended' = FALSE
            /\ pc' = "classifying"
            /\ UNCHANGED json
    /\ UNCHANGED << req, registry, classifierAnswer, intent, gptResult,
                    geminiResult, gptFailed, geminiFailed, taskA, taskB,
                    producedA, producedB, synthesisPrompt, fallbackLog, synth,
                    producedS >>
    /\ UNCHANGED << batch, evaluated >>

\* the classifier call returns: the intent is parsed, the pipeline looked
\* up, and both base streams are started
ClassifierSettles(outcome) ==
    /\ pc = "classifying"
    /\ classifier' = IF outcome.raised THEN "raised" ELSE "returned"
    /\ classifierAnswer' = getGptResponse(outcome, CLASSIFIER_MODEL)
    /\ LET classificationResponse == getGptResponse(outcome, CLASSIFIER_MODEL)
           chosen   == IntentOf(classificationResponse)
           pipeline == registry[chosen]
           config   == pipeline.config
       IN  /\ intent' = chosen
           /\ events' = SendEvent(
                  SendEvent(events, "initial-data",
                      [ pipelineName |-> pipeline.name,
                        classifierReasoning |-> Reasoning(classificationResponse) ]),
                  "status", [ message |-> "Generating base responses..." ])
           /\ calls' = calls \o
                  << Call("baseA", "openai", config.gpt,
                          convertHistoryForApi(historyForPrompting, "openai"),
                          req.prompt, TRUE),
                     Call("baseB", "gemini", config.gemini,
                          convertHistoryForApi(historyForPrompting, "gemini"),
                          req.prompt, TRUE) >>
    /\ gptResult' = <<>>
    /\ geminiResult' = <<>>
    /\ gptFailed' = FALSE
    /\ geminiFailed' = FALSE
    /\ taskA' = "running"
    /\ taskB' = "running"
    /\ pc' = "generating"
    /\ UNCHANGED << req, httpStatus, ended, json, registry,
                    historyForPrompting, producedA, producedB,
                    synthesisPrompt, fallbackLog, synth, producedS >>
    /\ UNCHANGED << batch, evaluated >>

(***************************************************************************)
(* The two base tasks (gptStreamPromise, geminiStreamPromise).             *)
(***************************************************************************)
ErrorMarkerA == << "\n\n--- ERROR: OpenAI API call failed. ---" >>
ErrorMarkerB == << "\n\n--- ERROR: Google AI API call failed. ---" >>

\* one iteration of A's for-await loop
AChunk(chunk) ==
    /\ taskA = "running"
    /\ Len(producedA) < MaxChunks
    /\ chunk \in AChunksAt(Len(producedA) + 1)
    /\ LET text == DeltaContent(chunk)
       IN  /\ producedA' = Append(producedA, chunk)
           /\ gptResult' = gptResult \o text
           /\ events' = SendEvent(events, "modelA-chunk", [ text |-> text ])
    /\ UNCHANGED << req, pc, httpStatus, ended, calls, registry,
                    historyForPrompting, json, classifier, classifierAnswer,
                    intent, geminiResult, gptFailed, geminiFailed, taskA,
                    taskB, producedB, synthesisPrompt, fallbackLog, synth,
                    producedS >>
    /\ UNCHANGED << batch, evaluated >>

\* A's stream ends
AComplete ==
    /\ taskA = "running"
    /\ taskA' = "completed"
    /\ UNCHANGED << req, pc, httpStatus, ended, events, calls, registry,
                    historyForPrompting, json, classifier, classifierAnswer,
                    intent, gptResult, geminiResult, gptFailed, geminiFailed,
                    taskB, producedA, producedB, synthesisPrompt, fallbackLog,
                    synth, producedS >>
    /\ UNCHANGED << batch, evaluated >>

\* A's catch sets both flags
ARaiseSharedFlag ==
    /\ taskA = "running"
    /\ taskA' = "failed"
    /\ gptFailed' = TRUE
    /\ geminiFailed' = TRUE
    /\ events' = SendEvent(events, "modelA-chunk", [ text |-> ErrorMarkerA ])
    /\ UNCHANGED << req, pc, httpStatus, ended, json, calls, registry,
                    historyForPrompting, classifier, classifierAnswer, intent,
                    gptResult, geminiResult, taskB, producedA, producedB,
                    synthesisPrompt, fallbackLog, synth, producedS >>
    /\ UNCHANGED << batch, evaluated >>

\* A's call or stream raises: the catch of gptStreamPromise
ARaise ==
    /\ taskA = "running"
    /\ taskA' = "failed"
    /\ gptFailed' = TRUE
    /\ events' = SendEvent(events, "modelA-chunk", [ text |-> ErrorMarkerA ])
    /\ UNCHANGED << req, pc, httpStatus, ended, calls, registry,
                    historyForPrompting, json, classifier, classifierAnswer,
                    intent, gptResult, geminiResult, geminiFailed, taskB,
                    producedA, producedB, synthesisPrompt, fallbackLog, synth,
                    producedS >>
    /\ UNCHANGED << batch, evaluated >>

\* one iteration of B's for-await loop
BChunk ==
    /\ taskB = "running"
    /\ Len(producedB) < MaxChunks
    /\ LET text == BChunkAt(Len(producedB) + 1)
       IN  /\ producedB' = Append(producedB, text)
           /\ geminiResult' = geminiResult \o text
           /\ events' = SendEvent(events, "modelB-chunk", [ text |-> text ])
    /\ UNCHANGED << req, pc, httpStatus, ended, calls, registry,
                    historyForPrompting, json, classifier, classifierAnswer,
                    intent, gptResult, gptFailed, geminiFailed, taskA, taskB,
                    producedA, synthesisPrompt, fallbackLog, synth, producedS >>
    /\ UNCHANGED << batch, evaluated >>

\* B's stream ends
BComplete ==
    /\ taskB = "running"
    /\ taskB' = "completed"
    /\ UNCHANGED << req, pc, httpStatus, ended, events, calls, registry,
                    historyForPrompting, json, classifier, classifierAnswer,
                    intent, gptResult, geminiResult, gptFailed, geminiFailed,
                    taskA, producedA, producedB, synthesisPrompt, fallbackLog,
                    synth, producedS >>
    /\ UNCHANGED << batch, evaluated >>

\* B's catch appends the marker to the accumulated text as well
BRaiseKeepsMarker ==
    /\ taskB = "running"
    /\ taskB' = "failed"
    /\ geminiFailed' = TRUE
    /\ geminiResult' = geminiResult \o ErrorMarkerB
    /\ events' = SendEvent(events, "modelB-chunk", [ text |-> ErrorMarkerB ])
    /\ UNCHANGED << req, pc, httpStatus, ended, calls, registry,
                    historyForPrompting, json, classifier, classifierAnswer,
                    intent, gptResult, gptFailed, taskA,
                    producedA, producedB, synthesisPrompt, fallbackLog, synth,
                    producedS >>
    /\ UNCHANGED << batch, evaluated >>

\* B's call or stream raises: the catch of geminiStreamPromise
BRaise ==
    /\ taskB = "running"
    /\ taskB' = "failed"
    /\ geminiFailed' = TRUE
    /\ events' = SendEvent(events, "modelB-chunk", [ text |-> ErrorMarkerB ])
    /\ UNCHANGED << req, pc, httpStatus, ended, calls, registry,
                    historyForPrompting, json, classifier, classifierAnswer,
                    intent, gptResult, geminiResult, gptFailed, taskA,
                    producedA, producedB, synthesisPrompt, fallbackLog, synth,
                    producedS >>
    /\ UNCHANGED << batch, evaluated >>

(***************************************************************************)
(* The join, the fallback decision and the synthesis.                      *)
(***************************************************************************)
Settled == { "completed", "failed" }

\* a race instead of a join: the first settled task resumes the handler
BothSettledRace == taskA \in Settled \/ taskB \in Settled

\* the handler goes on without awaiting the two tasks
BothSettledNoWait == TRUE

\* the join resolves only when both tasks succeeded
BothSettledAllCompleted == taskA = "completed" /\ taskB = "completed"

\* await Promise.all([gptStreamPromise, geminiStreamPromise])
BothSettled == taskA \in Settled /\ taskB \in Settled

\* the two refinement branches exchanged
FallbackBranchSwapped(aFailed, bFailed) ==
    IF aFailed /\ bFailed THEN "abort"
    ELSE IF aFailed THEN "refineA"
    ELSE IF bFailed THEN "refineB"
    ELSE "synthesize"

\* the dual-failure branch missing
FallbackBranchNoAbort(aFailed, bFailed) ==
    IF aFailed THEN "refineB"
    ELSE IF bFailed THEN "refineA"
    ELSE "synthesize"

\* || instead of && in the dual-failure test
FallbackBranchAbortOnAny(aFailed, bFailed) ==
    IF aFailed \/ bFailed THEN "abort"
    ELSE "synthesize"

\* the if / else-if chain of step 3
FallbackBranch(aFailed, bFailed) ==
    IF aFailed /\ bFailed THEN "abort"
    ELSE IF aFailed THEN "refineB"
    ELSE IF bFailed THEN "refineA"
    ELSE "synthesize"

PromptFor(branch) ==
    CASE branch = "refineB" ->
            getRefinementPrompt(req.prompt, geminiResult, req.constraints,
                                historyForPrompting)
      [] branch = "refineA" ->
            getRefinementPrompt(req.prompt, gptResult, req.constraints,
                                historyForPrompting)
      [] OTHER ->
            getSynthesisPrompt(req.prompt, gptResult, geminiResult,
                               req.constraints, historyForPrompting)

LogFor(branch) ==
    CASE branch = "refineB" -> << "Model A failed. Refining Model B's response." >>
      [] branch = "refineA" -> << "Model B failed. Refining Model A's response." >>
      [] OTHER -> <<>>

SynthApi(modelName) == IF StartsWithGemini(modelName) THEN "gemini" ELSE "openai"

\* the continuation of the await: step 3 and the start of step 4
Decide ==
    /\ pc = "generating"
    /\ BothSettled
    /\ LET branch == FallbackBranch(gptFailed, geminiFailed)
           synthesizerModel == registry[intent].config.synthesizer
       IN  IF branch = "abort"
           THEN /\ ended' = TRUE
                /\ pc' = "closed"
                /\ UNCHANGED << events, calls, synthesisPrompt, fallbackLog,
                                synth >>
           ELSE /\ synthesisPrompt' = PromptFor(branch)
                /\ fallbackLog' = LogFor(branch)
                /\ events' = SendEvent(
                       SendEvent(events, "fallback-log",
                                 [ log |-> LogFor(branch) ]),
                       "status", [ message |-> "Synthesizing final response..." ])
                /\ calls' = Append(calls,
                       Call("synthesizer", SynthApi(synthesizerModel),
                            synthesizerModel,
                            convertHistoryForApi(historyForPrompting,
                                                 SynthApi(synthesizerModel)),
                            PromptFor(branch), TRUE))
                /\ synth' = "running"
                /\ pc' = "synthesizing"
                /\ UNCHANGED ended
    /\ UNCHANGED << req, httpStatus, registry, historyForPrompting, json,
                    classifier, classifierAnswer, intent, gptResult,
                    geminiResult, gptFailed, geminiFailed, taskA, taskB,
                    producedA, producedB, producedS >>
    /\ UNCHANGED << batch, evaluated >>

\* the draft is forwarded in place of the synthesizer's fragment
SynthChunkTextFromDraft(chunk) == IF ~gptFailed THEN gptResult ELSE geminiResult

\* the text of a synthesizer chunk: chunk.text(), or delta.content || ""
SynthChunkText(chunk) == DeltaContent(chunk)

\* one iteration of the synthesizer's for-await loop
SynthChunk(chunk) ==
    /\ pc = "synthesizing"
    /\ synth = "running"
    /\ Len(producedS) < MaxSynthChunks
    /\ chunk \in SChunksAt(Len(producedS) + 1)
    /\ producedS' = Append(producedS, chunk)
    /\ events' = SendEvent(events, "synthesis-chunk",
                           [ text |-> SynthChunkText(chunk) ])
    /\ UNCHANGED << req, pc, httpStatus, ended, calls, registry,
                    historyForPrompting, json, classifier, classifierAnswer,
                    intent, gptResult, geminiResult, gptFailed, geminiFailed,
                    taskA, taskB, producedA, producedB, synthesisPrompt,
                    fallbackLog, synth >>
    /\ UNCHANGED << batch, evaluated >>

DoneEvent == [ event |-> "done", data |-> [ message |-> "Stream complete." ] ]

\* the synthesizer's stream ends: done, res.end()
SynthComplete ==
    /\ pc = "synthesizing"
    /\ synth = "running"
    /\ synth' = "completed"
    /\ events' = Append(events, DoneEvent)
    /\ ended' = TRUE
    /\ pc' = "closed"
    /\ UNCHANGED << req, httpStatus, calls, registry, historyForPrompting,
                    json, classifier, classifierAnswer, intent, gptResult,
                    geminiResult, gptFailed, geminiFailed, taskA, taskB,
                    producedA, producedB, synthesisPrompt, fallbackLog,
                    producedS >>
    /\ UNCHANGED << batch, evaluated >>

SynthesisFailedNote == " Synthesis step failed. Displaying best available response."
SynthesisFailedLabel ==
    "\n\n--- SYNTHESIS FAILED ---\nDisplaying best available base response:\n\n"

\* A's text is shown whether or not A failed
FallbackResponseAlwaysA == gptResult

\* const fallbackResponse = !gptFailed ? gptResult : geminiResult
FallbackResponse == IF ~gptFailed THEN gptResult ELSE geminiResult

\* the inner catch withdraws the partial synthesis chunks
SynthRaiseRetracts ==
    /\ pc = "synthesizing"
    /\ synth = "running"
    /\ synth' = "failed"
    /\ fallbackLog' = Append(fallbackLog, SynthesisFailedNote)
    /\ events' =
         Append(
           SendEvent(
             SendEvent(SelectSeq(events, LAMBDA e : e.event # "synthesis-chunk"),
                       "fallback-log",
                       [ log |-> Append(fallbackLog, SynthesisFailedNote) ]),
             "synthesis-chunk",
             [ text |-> << SynthesisFailedLabel >> \o FallbackResponse ]),
           DoneEvent)
    /\ ended' = TRUE
    /\ pc' = "closed"
    /\ UNCHANGED << req, httpStatus, calls, registry, historyForPrompting,
                    json, classifier, classifierAnswer, intent, gptResult,
                    geminiResult, gptFailed, geminiFailed, taskA, taskB,
                    producedA, producedB, synthesisPrompt, producedS >>
    /\ UNCHANGED << batch, evaluated >>

\* the synthesizer's call or stream raises: the inner catch, done, res.end()
SynthRaise ==
    /\ pc = "synthesizing"
    /\ synth = "running"
    /\ synth' = "failed"
    /\ fallbackLog' = Append(fallbackLog, SynthesisFailedNote)
    /\ events' =
         Append(
           SendEvent(
             SendEvent(events, "fallback-log",
                       [ log |-> Append(fallbackLog, SynthesisFailedNote) ]),
             "synthesis-chunk",
             [ text |-> << SynthesisFailedLabel >> \o FallbackResponse ]),
           DoneEvent)
    /\ ended' = TRUE
    /\ pc' = "closed"
    /\ UNCHANGED << req, httpStatus, calls, registry, historyForPrompting,
                    json, classifier, classifierAnswer, intent, gptResult,
                    geminiResult, gptFailed, geminiFailed, taskA, taskB,
                    producedA, producedB, synthesisPrompt, producedS >>
    /\ UNCHANGED << batch, evaluated >>

\* the response is finished: the handler's locals are gone and the server
\* waits for the next request
NextRequest ==
    /\ pc \in { "closed", "rejected" }
    /\ req' = NoRequest
    /\ pc' = "listening"
    /\ httpStatus' = 0
    /\ ended' = FALSE
    /\ json' = <<>>
    /\ events' = <<>>
    /\ calls' = <<>>
    /\ historyForPrompting' = <<>>
    /\ classifier' = "idle"
    /\ classifierAnswer' = <<>>
    /\ intent' = "none"
    /\ gptResult' = <<>>
    /\ geminiResult' = <<>>
    /\ gptFailed' = FALSE
    /\ geminiFailed' = FALSE
    /\ taskA' = "idle"
    /\ taskB' = "idle"
    /\ producedA' = <<>>
    /\ producedB' = <<>>
    /\ synthesisPrompt' = <<>>
    /\ fallbackLog' = <<>>
    /\ synth' = "idle"
    /\ producedS' = <<>>
    /\ UNCHANGED registry
    /\ UNCHANGED << batch, evaluated >>

Next ==
    \/ \E r \in Requests : Receive(r)
    \/ Start
    \/ \E outcome \in ClassifierOutcomes : ClassifierSettles(outcome)
    \/ \E chunk \in AChunksAt(Len(producedA) + 1) : AChunk(chunk)
    \/ AComplete
    \/ ARaise
    \/ BChunk
    \/ BComplete
    \/ BRaise
    \/ Decide
    \/ \E chunk \in SChunksAt(Len(producedS) + 1) : SynthChunk(chunk)
    \/ SynthComplete
    \/ SynthRaise
    \/ NextRequest

Spec == Init /\ [][Next]_vars

(***************************************************************************)
(* The same handler with its scheduling: the event loop runs every         *)
(* continuation that is ready (the handler's synchronous stretches), and   *)
(* every provider invocation eventually settles, its stream being finite.  *)
(***************************************************************************)
ClassifierSettlesSome ==
    \E outcome \in ClassifierOutcomes : ClassifierSettles(outcome)

\* termination does not depend on what the texts are: the bodies without
\* constraints whose history, if any, is empty
LiveRequests ==
    { r \in Requests :
        /\ ~r.constraints.present
        /\ r.chatHistory.turns = <<>> }

NextLive ==
    \/ \E r \in LiveRequests : Receive(r)
    \/ Start
    \/ ClassifierSettlesSome
    \/ \E chunk \in AChunksAt(Len(producedA) + 1) : AChunk(chunk)
    \/ AComplete
    \/ ARaise
    \/ BChunk
    \/ BComplete
    \/ BRaise
    \/ Decide
    \/ \E chunk \in SChunksAt(Len(producedS) + 1) : SynthChunk(chunk)
    \/ SynthComplete
    \/ SynthRaise
    \/ NextRequest

SpecLive ==
    /\ Init
    /\ [][NextLive]_vars
    /\ WF_vars(Start)
    /\ WF_vars(ClassifierSettlesSome)
    /\ WF_vars(AComplete \/ ARaise)
    /\ WF_vars(BComplete \/ BRaise)
    /\ WF_vars(Decide)
    /\ WF_vars(SynthComplete \/ SynthRaise)

(***************************************************************************)
(* The batch runner (main and runDynamicTest): every test case runs        *)
(* concurrently, each a chain of awaited calls, and all share one cache    *)
(* of base responses. batch.calls logs the backend calls in the order      *)
(* they are made; a call that returns is given its own text (the call's    *)
(* position in the log), a call that raises the helper's error text; a     *)
(* successful call costs one unit.                                         *)
(***************************************************************************)
getSynthesisPromptBatch(prompt, gptResponse, geminiResponse, constraints) ==
    << "Your task is to synthesize two AI-generated responses.",
       "Original User Prompt:" >> \o prompt
    \o << "Response A:" >> \o gptResponse
    \o << "Response B:" >> \o geminiResponse
    \o (IF constraints # <<>>
        THEN << "CRITICAL INSTRUCTION: You must adhere to the following user-defined constraint when generating the final response:" >>
             \o constraints
        ELSE <<>>)
    \o << "Instructions:", "Synthesized and Superior Response:" >>

getRefinementPromptBatch(prompt, singleResponse, constraints) ==
    << "Your task is to review and improve the following AI-generated response.",
       "Original User Prompt:" >> \o prompt
    \o << "AI Response to Refine:" >> \o singleResponse
    \o (IF constraints # <<>>
        THEN << "CRITICAL INSTRUCTION: You must adhere to the following user-defined constraint when generating the final response:" >>
             \o constraints
        ELSE <<>>)
    \o << "Instructions:", "Refined and Superior Response:" >>

getClassificationPromptBatch(prompt) ==
    << "You are an expert at analyzing user prompts.", "User Prompt:" >>
    \o prompt
    \o << "Reasoning:", "\n", "Classification:" >>

\* the entries PROMPTS_TO_TEST is made of, and the lists it can be
TestCases ==
    { [ prompt |-> << "p" >>, constraints |-> <<>> ],
      [ prompt |-> << "q" >>, constraints |-> << "c" >> ] }

PROMPTS_TO_TEST == [1 .. MaxTests -> TestCases]

\* what a backend does with a call: it raises, or it returns
BatchOutcomes == { [ raised |-> TRUE ], [ raised |-> FALSE ] }

\* what the classifier answers when it returns
BatchClassifierAnswers == { << "r1", "\n", "FACTUAL" >>, << "creative" >> }

\* the value a helper resolves with for the call logged at position k
BatchRun(outcome, provider, content) ==
    IF outcome.raised
    THEN [ content |-> << "ERROR", " from ", provider, ": ", "message" >>,
           cost |-> 0 ]
    ELSE [ content |-> content, cost |-> 1 ]

TextOfCall(k) == << "r" \o ToString(k) >>

NoRun == [ content |-> <<>>, cost |-> 0 ]

\* `${prompt}-${model}`
CacheKey(prompt, modelName) == << prompt, modelName >>

CachePut(cache, key, run) ==
    [k \in (DOMAIN cache) \cup { key } |-> IF k = key THEN run ELSE cache[k]]

BatchCall(role, modelName, prompt, test) ==
    [ role |-> role, model |-> modelName, prompt |-> prompt, test |-> test ]

\* createTxtEntry: the title of the last block
FinalResponseTitle(log) ==
    IF Includes(log, "Synthesis step failed")
    THEN "FALLBACK RESPONSE"
    ELSE "FINAL RESPONSE"

\* runDynamicTest from the moment both base runs are known to its next
\* await or its return
AfterBaseRuns(b, i) ==
    LET t       == b.tests[i]
        config  == registry[t.intent].config
        aFailed == Includes(t.gptRun.content, "ERROR")
        bFailed == Includes(t.geminiRun.content, "ERROR")
        branch  == FallbackBranch(aFailed, bFailed)
        prompt  ==
            CASE branch = "refineB" ->
                    getRefinementPromptBatch(t.prompt, t.geminiRun.content,
                                             t.constraints)
              [] branch = "refineA" ->
                    getRefinementPromptBatch(t.prompt, t.gptRun.content,
                                             t.constraints)
              [] OTHER ->
                    getSynthesisPromptBatch(t.prompt, t.gptRun.content,
                        t.geminiRun.content, t.constraints)
        log     ==
            CASE branch = "refineB" ->
                    << "FALLBACK: GPT-5 base failed. Refining Gemini response." >>
              [] branch = "refineA" ->
                    << "FALLBACK: Gemini base failed. Refining GPT-5 response." >>
              [] OTHER -> <<>>
    IN  IF branch = "abort"
        THEN [b EXCEPT
                !.tests[i].at = "returned",
                !.tests[i].gptFailed = aFailed,
                !.tests[i].geminiFailed = bFailed,
                !.tests[i].fallbackLog =
                    << "FALLBACK: Both base models failed." >>,
                !.tests[i].finalResponse =
                    << "FATAL: Both base models failed." >>,
                !.tests[i].title = FinalResponseTitle(
                    << "FALLBACK: Both base models failed." >>)]
        ELSE [b EXCEPT
                !.tests[i].at = "synthesizer",
                !.tests[i].gptFailed = aFailed,
                !.tests[i].geminiFailed = bFailed,
                !.tests[i].fallbackLog = log,
                !.calls = Append(b.calls,
                    BatchCall("synthesizer", config.synthesizer, prompt, i))]

\* cache[gptCacheKey] = gptRun, then geminiRun from the cache or a call
AfterGptRun(b, i) ==
    LET t         == b.tests[i]
        config    == registry[t.intent].config
        gptKey    == CacheKey(t.prompt, config.gpt)
        geminiKey == CacheKey(t.prompt, config.gemini)
        cached    == CachePut(b.cache, gptKey, t.gptRun)
    IN  IF geminiKey \in DOMAIN cached
        THEN AfterBaseRuns(
                 [b EXCEPT !.cache = CachePut(cached, geminiKey, cached[geminiKey]),
                           !.tests[i].geminiRun = cached[geminiKey]], i)
        ELSE [b EXCEPT
                !.cache = cached,
                !.tests[i].at = "gemini",
                !.calls = Append(b.calls,
                    BatchCall("baseB", config.gemini, t.prompt, i))]

\* the intent is parsed, then gptRun from the cache or a call
AfterClassifierRun(b, i) ==
    LET t      == b.tests[i]
        chosen == IntentOf(t.classifierRun.content)
        config == registry[chosen].config
        gptKey == CacheKey(t.prompt, config.gpt)
        b1     == [b EXCEPT !.tests[i].intent = chosen]
    IN  IF gptKey \in DOMAIN b.cache
        THEN AfterGptRun(
                 [b1 EXCEPT !.tests[i].gptRun = b.cache[gptKey]], i)
        ELSE [b1 EXCEPT
                !.tests[i].at = "gpt",
                !.calls = Append(b.calls,
                    BatchCall("baseA", config.gpt, t.prompt, i))]

\* the position in batch.calls of the call test i is waiting for
AwaitedCall(b, i) ==
    CHOOSE k \in DOMAIN b.calls :
        /\ b.calls[k].test = i
        /\ \A j \in DOMAIN b.calls : b.calls[j].test = i => j <= k

BatchUnchanged ==
    UNCHANGED << req, pc, httpStatus, ended, json, events, calls, registry,
                 historyForPrompting, classifier, classifierAnswer, intent,
                 gptResult, geminiResult, gptFailed, geminiFailed, taskA,
                 taskB, producedA, producedB, synthesisPrompt, fallbackLog,
                 synth, producedS, evaluated >>

\* main(): the cache is created and every test case is started; each runs
\* to its first await, the classifier call
BatchMain(cases) ==
    /\ ~batch.started
    /\ batch' =
           [ started |-> TRUE,
             written |-> FALSE,
             totalCost |-> 0,
             cache |-> <<>>,
             calls |-> [i \in DOMAIN cases |->
                          BatchCall("classifier", CLASSIFIER_MODEL,
                                    getClassificationPromptBatch(cases[i].prompt),
                                    i)],
             tests |-> [i \in DOMAIN cases |->
                          [ prompt |-> cases[i].prompt,
                            constraints |-> cases[i].constraints,
                            at |-> "classifier",
                            intent |-> "none",
                            classifierRun |-> NoRun,
                            gptRun |-> NoRun,
                            geminiRun |-> NoRun,
                            gptFailed |-> FALSE,
                            geminiFailed |-> FALSE,
                            fallbackLog |-> <<>>,
                            finalResponse |-> <<>>,
                            title |-> "none" ]] ]
    /\ BatchUnchanged

\* the classifier call of test i settles
BatchClassifierSettles(i, outcome, answer) ==
    /\ batch.started
    /\ i \in DOMAIN batch.tests
    /\ batch.tests[i].at = "classifier"
    /\ LET run == BatchRun(outcome, "OpenAI", answer)
       IN  batch' = AfterClassifierRun(
                        [batch EXCEPT !.tests[i].classifierRun = run,
                                      !.totalCost = @ + run.cost], i)
    /\ BatchUnchanged

\* the base call to A of test i settles
BatchGptSettles(i, outcome) ==
    /\ batch.started
    /\ i \in DOMAIN batch.tests
    /\ batch.tests[i].at = "gpt"
    /\ LET run == BatchRun(outcome, "OpenAI", TextOfCall(AwaitedCall(batch, i)))
       IN  batch' = AfterGptRun(
                        [batch EXCEPT !.tests[i].gptRun = run,
                                      !.totalCost = @ + run.cost], i)
    /\ BatchUnchanged

\* the base call to B of test i settles
BatchGeminiSettles(i, outcome) ==
    /\ batch.started
    /\ i \in DOMAIN batch.tests
    /\ batch.tests[i].at = "gemini"
    /\ LET run == BatchRun(outcome, "Google AI",
                           TextOfCall(AwaitedCall(batch, i)))
           t   == batch.tests[i]
           key == CacheKey(t.prompt, registry[t.intent].config.gemini)
       IN  batch' = AfterBaseRuns(
                        [batch EXCEPT !.tests[i].geminiRun = run,
                                      !.cache = CachePut(batch.cache, key, run),
                                      !.totalCost = @ + run.cost], i)
    /\ BatchUnchanged

\* the synthesizer call of test i settles and the test returns its result
BatchSynthSettles(i, outcome) ==
    /\ batch.started
    /\ i \in DOMAIN batch.tests
    /\ batch.tests[i].at = "synthesizer"
    /\ LET t       == batch.tests[i]
           model   == registry[t.intent].config.synthesizer
           run     == BatchRun(outcome,
                               IF StartsWithGemini(model) THEN "Google AI"
                                                          ELSE "OpenAI",
                               TextOfCall(AwaitedCall(batch, i)))
           sniffed == Includes(run.content, "ERROR")
           final   == IF sniffed
                      THEN IF ~t.gptFailed THEN t.gptRun.content
                                           ELSE t.geminiRun.content
                      ELSE run.content
           log     == IF sniffed
                      THEN t.fallbackLog
                           \o (IF t.fallbackLog # <<>> THEN << " " >> ELSE <<>>)
                           \o << "FALLBACK: ", "Synthesis step failed",
                                 "; returning ",
                                 IF ~t.gptFailed THEN "GPT-5" ELSE "Gemini",
                                 " base." >>
                      ELSE t.fallbackLog
       IN  batch' = [batch EXCEPT
                        !.tests[i].at = "returned",
                        !.tests[i].finalResponse = final,
                        !.tests[i].fallbackLog = log,
                        !.tests[i].title = FinalResponseTitle(log),
                        !.totalCost = @ + run.cost]
    /\ BatchUnchanged

\* Promise.all resolves: the results are sorted and written
BatchWrite ==
    /\ batch.started
    /\ ~batch.written
    /\ \A i \in DOMAIN batch.tests : batch.tests[i].at = "returned"
    /\ batch' = [batch EXCEPT !.written = TRUE]
    /\ BatchUnchanged

NextBatch ==
    \/ \E cases \in PROMPTS_TO_TEST : BatchMain(cases)
    \/ \E i \in 1 .. MaxTests : \E outcome \in BatchOutcomes :
          \E answer \in BatchClassifierAnswers :
             BatchClassifierSettles(i, outcome, answer)
    \/ \E i \in 1 .. MaxTests : \E outcome \in BatchOutcomes :
          BatchGptSettles(i, outcome)
    \/ \E i \in 1 .. MaxTests : \E outcome \in BatchOutcomes :
          BatchGeminiSettles(i, outcome)
    \/ \E i \in 1 .. MaxTests : \E outcome \in BatchOutcomes :
          BatchSynthSettles(i, outcome)
    \/ BatchWrite

SpecBatch == Init /\ [][NextBatch]_vars

(***************************************************************************)
(* The helpers called on their own (history translation and prompt         *)
(* composition), on every history of up to MaxTurns turns, absent          *)
(* included. evaluated records the call: its arguments, the history        *)
(* argument as it is after the call, and the result.                       *)
(***************************************************************************)
HistoryTurns ==
    [ role : { "user", "assistant" }, content : { << "h1" >>, << "h2" >> } ]

HistoryArgs ==
    { [ present |-> FALSE, turns |-> <<>> ] }
    \cup { [ present |-> TRUE, turns |-> h ] :
             h \in UNION { [1 .. n -> HistoryTurns] : n \in 0 .. MaxTurns } }

ApiTypes == { "openai", "gemini", "other" }

\* if (!history) return []
convertHistoryForApiArg(arg, apiType) ==
    IF ~arg.present THEN <<>> ELSE convertHistoryForApi(arg.turns, apiType)

\* the default parameter chatHistory = []
HistoryOrDefault(arg) == IF arg.present THEN arg.turns ELSE <<>>

EvalConvertHistory(arg, apiType) ==
    /\ evaluated' =
           [ fn |-> "convertHistoryForApi",
             history |-> arg,
             apiType |-> apiType,
             historyAfter |-> arg,
             result |-> convertHistoryForApiArg(arg, apiType) ]
    /\ UNCHANGED << req, pc, httpStatus, ended, json, events, calls, registry,
                    historyForPrompting, classifier, classifierAnswer, intent,
                    gptResult, geminiResult, gptFailed, geminiFailed, taskA,
                    taskB, producedA, producedB, synthesisPrompt, fallbackLog,
                    synth, producedS, batch >>

EvalSynthesisPrompt(constraints, arg) ==
    /\ evaluated' =
           [ fn |-> "getSynthesisPrompt",
             constraints |-> constraints,
             history |-> arg,
             historyAfter |-> arg,
             result |-> getSynthesisPrompt(<< "p" >>, << "ra" >>, << "rb" >>,
                            constraints, HistoryOrDefault(arg)) ]
    /\ UNCHANGED << req, pc, httpStatus, ended, json, events, calls, registry,
                    historyForPrompting, classifier, classifierAnswer, intent,
                    gptResult, geminiResult, gptFailed, geminiFailed, taskA,
                    taskB, producedA, producedB, synthesisPrompt, fallbackLog,
                    synth, producedS, batch >>

EvalRefinementPrompt(constraints, arg) ==
    /\ evaluated' =
           [ fn |-> "getRefinementPrompt",
             constraints |-> constraints,
             history |-> arg,
             historyAfter |-> arg,
             result |-> getRefinementPrompt(<< "p" >>, << "ra" >>, constraints,
                            HistoryOrDefault(arg)) ]
    /\ UNCHANGED << req, pc, httpStatus, ended, json, events, calls, registry,
                    historyForPrompting, classifier, classifierAnswer, intent,
                    gptResult, geminiResult, gptFailed, geminiFailed, taskA,
                    taskB, producedA, producedB, synthesisPrompt, fallbackLog,
                    synth, producedS, batch >>

NextHelpers ==
    \/ \E arg \in HistoryArgs : \E apiType \in ApiTypes :
          EvalConvertHistory(arg, apiType)
    \/ \E constraints \in ConstraintInputs : \E arg \in HistoryArgs :
          EvalSynthesisPrompt(constraints, arg)
    \/ \E constraints \in ConstraintInputs : \E arg \in HistoryArgs :
          EvalRefinementPrompt(constraints, arg)

SpecHelpers == Init /\ [][NextHelpers]_vars

(***************************************************************************)
(* The non-streaming /combine handler (model-combiner-js/index.js): the    *)
(* same server state, one JSON body per request in place of the event      *)
(* stream. producedA, producedB and producedS hold what each helper call   *)
(* resolved with.                                                          *)
(***************************************************************************)
getSynthesisPromptNoHistory(prompt, gptResponse, geminiResponse) ==
    << "Your task is to synthesize two AI-generated responses.",
       "Original User Prompt:" >> \o prompt
    \o << "Response A:" >> \o gptResponse
    \o << "Response B:" >> \o geminiResponse
    \o << "Instructions:", "Synthesized and Superior Response:" >>

getRefinementPromptNoHistory(prompt, singleResponse) ==
    << "Your task is to review and improve the following AI-generated response.",
       "Original User Prompt:" >> \o prompt
    \o << "AI Response to Refine:" >> \o singleResponse
    \o << "Instructions:", "Refined and Superior Response:" >>

getClassificationPromptNoHistory(prompt) ==
    << "You are an expert at analyzing user prompts.", "User Prompt:" >>
    \o prompt
    \o << "Reasoning:", "\n", "Classification:" >>

\* getGeminiResponse: the text, or the error text when the call raised
getGeminiResponse(outcome, modelName) ==
    IF outcome.raised
    THEN << "ERROR", ": Google AI API call failed for model ", modelName, "." >>
    ELSE outcome.content

\* the bodies posted: only prompt is read
JsonRequests ==
    { r \in Requests : ~r.constraints.present /\ ~r.chatHistory.present }

\* the tokens classifier answers are drawn from
AnswerTokens == { "creative", "Uncreative", "FACTUAL", "x", " ", "\n" }

AnswerTexts == UNION { [1 .. n -> AnswerTokens] : n \in 0 .. MaxAnswerLen }

\* what the classifier backend does: it raises, or it answers any text
JsonClassifierOutcomes ==
    { [ raised |-> TRUE, content |-> <<>> ] }
    \cup { [ raised |-> FALSE, content |-> c ] : c \in AnswerTexts }

\* what a base or synthesizer backend does: it raises, or it returns a text,
\* which may hold the word ERROR
TextOutcomes(word) ==
    { [ raised |-> TRUE, content |-> <<>> ],
      [ raised |-> FALSE, content |-> << word >> ],
      [ raised |-> FALSE, content |-> << word, " ", "ERROR", " ", "404" >> ] }

\* the handler up to its first await: validation and the classifier call
JsonStart ==
    /\ pc = "received"
    /\ IF req.prompt = <<>>
       THEN /\ httpStatus' = 400
            /\ json' = Append(json, [ error |-> "Prompt is required." ])
            /\ ended' = TRUE
            /\ pc' = "rejected"
            /\ UNCHANGED << calls, classifier >>
       ELSE /\ calls' = Append(calls,
                   Call("classifier", "openai", CLASSIFIER_MODEL, <<>>,
                        getClassificationPromptNoHistory(req.prompt), FALSE))
            /\ classifier' = "running"
            /\ pc' = "classifying"
            /\ UNCHANGED << httpStatus, json, ended >>
    /\ UNCHANGED << req, events, registry, historyForPrompting,
                    classifierAnswer, intent, gptResult, geminiResult,
                    gptFailed, geminiFailed, taskA, taskB, producedA,
                    producedB, synthesisPrompt, fallbackLog, synth,
                    producedS >>
    /\ UNCHANGED << batch, evaluated >>

\* the classifier call settles; the intent is parsed, the pipeline selected
\* and the two base calls made, up to await Promise.all
JsonClassifierSettles(outcome) ==
    /\ pc = "classifying"
    /\ classifier' = IF outcome.raised THEN "raised" ELSE "returned"
    /\ classifierAnswer' = getGptResponse(outcome, CLASSIFIER_MODEL)
    /\ LET classificationResponse == getGptResponse(outcome, CLASSIFIER_MODEL)
           chosen == IntentOf(classificationResponse)
           config == registry[chosen].config
       IN  /\ intent' = chosen
           /\ calls' = calls \o
                  << Call("baseA", "openai", config.gpt, <<>>, req.prompt, FALSE),
                     Call("baseB", "gemini", config.gemini, <<>>, req.prompt,
                          FALSE) >>
    /\ taskA' = "running"
    /\ taskB' = "running"
    /\ pc' = "generating"
    /\ UNCHANGED << req, httpStatus, ended, json, events, registry,
                    historyForPrompting, gptResult, geminiResult, gptFailed,
                    geminiFailed, producedA, producedB, synthesisPrompt,
                    fallbackLog, synth, producedS >>
    /\ UNCHANGED << batch, evaluated >>

\* getGptResponse(prompt, config.gpt) resolves
JsonBaseASettles(outcome) ==
    /\ taskA = "running"
    /\ taskA' = IF outcome.raised THEN "failed" ELSE "completed"
    /\ producedA' = << getGptResponse(outcome, registry[intent].config.gpt) >>
    /\ UNCHANGED << req, pc, httpStatus, ended, json, events, calls, registry,
                    historyForPrompting, classifier, classifierAnswer, intent,
                    gptResult, geminiResult, gptFailed, geminiFailed, taskB,
                    producedB, synthesisPrompt, fallbackLog, synth, producedS >>
    /\ UNCHANGED << batch, evaluated >>

\* getGeminiResponse(prompt, config.gemini) resolves
JsonBaseBSettles(outcome) ==
    /\ taskB = "running"
    /\ taskB' = IF outcome.raised THEN "failed" ELSE "completed"
    /\ producedB' =
           << getGeminiResponse(outcome, registry[intent].config.gemini) >>
    /\ UNCHANGED << req, pc, httpStatus, ended, json, events, calls, registry,
                    historyForPrompting, classifier, classifierAnswer, intent,
                    gptResult, geminiResult, gptFailed, geminiFailed, taskA,
                    producedA, synthesisPrompt, fallbackLog, synth, producedS >>
    /\ UNCHANGED << batch, evaluated >>

JsonPromptFor(branch, a, b) ==
    CASE branch = "refineB" -> getRefinementPromptNoHistory(req.prompt, b)
      [] branch = "refineA" -> getRefinementPromptNoHistory(req.prompt, a)
      [] OTHER -> getSynthesisPromptNoHistory(req.prompt, a, b)

JsonLogFor(branch) ==
    IF branch \in { "refineA", "refineB" }
    THEN << "A primary model was unavailable. Refining the best available response." >>
    ELSE <<>>

\* the continuation of await Promise.all: the failed flags are read off the
\* two texts, then the fallback decision and the synthesizer call
JsonDecide ==
    /\ pc = "generating"
    /\ BothSettled
    /\ LET a == producedA[1]
           b == producedB[1]
           aFailed == Includes(a, "ERROR")
           bFailed == Includes(b, "ERROR")
           branch == FallbackBranch(aFailed, bFailed)
           synthesizerModel == registry[intent].config.synthesizer
       IN  /\ gptResult' = a
           /\ geminiResult' = b
           /\ gptFailed' = aFailed
           /\ geminiFailed' = bFailed
           /\ IF branch = "abort"
              THEN /\ json' = Append(json,
                          [ finalResponse |->
                              << "FATAL: Both primary models failed. Please try again." >>,
                            gptResult |-> a,
                            geminiResult |-> b,
                            pipelineName |-> registry[intent].name,
                            fallbackLog |-> << "Both base models failed." >>,
                            classifierReasoning |-> Reasoning(classifierAnswer) ])
                   /\ httpStatus' = 200
                   /\ ended' = TRUE
                   /\ pc' = "closed"
                   /\ UNCHANGED << calls, synthesisPrompt, fallbackLog, synth >>
              ELSE /\ synthesisPrompt' = JsonPromptFor(branch, a, b)
                   /\ fallbackLog' = JsonLogFor(branch)
                   /\ calls' = Append(calls,
                          Call("synthesizer", SynthApi(synthesizerModel),
                               synthesizerModel, <<>>,
                               JsonPromptFor(branch, a, b), FALSE))
                   /\ synth' = "running"
                   /\ pc' = "synthesizing"
                   /\ UNCHANGED << json, httpStatus, ended >>
    /\ UNCHANGED << req, events, registry, historyForPrompting, classifier,
                    classifierAnswer, intent, taskA, taskB, producedA,
                    producedB, producedS >>
    /\ UNCHANGED << batch, evaluated >>

JsonSynthesisFailedNote ==
    << "The final synthesis step failed. Displaying the best available response." >>

\* synthFn resolves; the final response and the fallback log are settled and
\* the body is sent
JsonSynthSettles(outcome) ==
    /\ pc = "synthesizing"
    /\ synth = "running"
    /\ LET synthesizerModel == registry[intent].config.synthesizer
           returned == IF StartsWithGemini(synthesizerModel)
                       THEN getGeminiResponse(outcome, synthesizerModel)
                       ELSE getGptResponse(outcome, synthesizerModel)
           sniffed == Includes(returned, "ERROR")
           finalResponse == IF sniffed
                            THEN IF ~gptFailed THEN gptResult ELSE geminiResult
                            ELSE returned
           log == IF sniffed
                  THEN fallbackLog
                       \o (IF fallbackLog # <<>> THEN << " " >> ELSE <<>>)
                       \o JsonSynthesisFailedNote
                  ELSE fallbackLog
       IN  /\ producedS' = << returned >>
           /\ fallbackLog' = log
           /\ json' = Append(json,
                  [ finalResponse |-> finalResponse,
                    gptResult |-> gptResult,
                    geminiResult |-> geminiResult,
                    pipelineName |-> registry[intent].name,
                    fallbackLog |-> log,
                    classifierReasoning |-> Reasoning(classifierAnswer) ])
    /\ synth' = IF outcome.raised THEN "failed" ELSE "completed"
    /\ httpStatus' = 200
    /\ ended' = TRUE
    /\ pc' = "closed"
    /\ UNCHANGED << req, events, calls, registry, historyForPrompting,
                    classifier, classifierAnswer, intent, gptResult,
                    geminiResult, gptFailed, geminiFailed, taskA, taskB,
                    producedA, producedB, synthesisPrompt >>
    /\ UNCHANGED << batch, evaluated >>

NextJson ==
    \/ \E r \in JsonRequests : Receive(r)
    \/ JsonStart
    \/ \E outcome \in JsonClassifierOutcomes : JsonClassifierSettles(outcome)
    \/ \E outcome \in TextOutcomes("a") : JsonBaseASettles(outcome)
    \/ \E outcome \in TextOutcomes("b") : JsonBaseBSettles(outcome)
    \/ JsonDecide
    \/ \E outcome \in TextOutcomes("s") : JsonSynthSettles(outcome)
    \/ NextRequest

SpecJson == Init /\ [][NextJson]_vars

(***************************************************************************)
(* What the properties are stated in: the event stream the caller sees and *)
(* what the backends did.                                                  *)
(***************************************************************************)
RECURSIVE Flatten(_)
Flatten(ts) == IF ts = <<>> THEN <<>> ELSE Head(ts) \o Flatten(Tail(ts))

TerminalTags == { "done", "error" }
BaseChunkTags == { "modelA-chunk", "modelB-chunk" }

EventsTagged(tag) == SelectSeq(events, LAMBDA e : e.event = tag)
TextsOf(evs) == [i \in DOMAIN evs |-> evs[i].data.text]
TagIndexes(tags) == { i \in DOMAIN events : events[i].event \in tags }
LastTag == IF events = <<>> THEN "none" ELSE events[Len(events)].event

CallsOf(roles) == { i \in DOMAIN calls : calls[i].role \in roles }

\* the text each backend produced, from the chunks it yielded
BackendTextA ==
    Flatten([i \in DOMAIN producedA |->
               IF producedA[i].hasContent THEN producedA[i].content ELSE <<>>])
BackendTextB == Flatten(producedB)
BackendFragmentS(i) ==
    IF producedS[i].hasContent THEN producedS[i].content ELSE <<>>

AFailedRun == taskA = "failed"
BFailedRun == taskB = "failed"
BasesSettled ==
    /\ taskA \in { "completed", "failed" }
    /\ taskB \in { "completed", "failed" }
SynthInvoked == CallsOf({ "synthesizer" }) # {}

SharesToken(t, u) == \E i \in DOMAIN t : \E j \in DOMAIN u : t[i] = u[j]

(***************************************************************************)
(* C1: for every request with a non-empty prompt, exactly one terminal     *)
(* event (done or error) is written, and it is the last event written      *)
(* before the stream is closed.                                            *)
(***************************************************************************)
C1_ExactlyOneTerminalEventLast ==
    /\ \A i \in TagIndexes(TerminalTags) : i = Len(events)
    /\ (req.prompt # <<>> /\ ended) =>
           /\ Cardinality(TagIndexes(TerminalTags)) = 1
           /\ LastTag \in TerminalTags

(***************************************************************************)
(* C2: join barrier. The fallback decision is taken, the prompt built and  *)
(* the synthesizer invoked only after both base tasks have settled, and    *)
(* no base-provider chunk event follows the invocation of the synthesizer  *)
(* (which the first fallback-log event precedes in the same step).         *)
(***************************************************************************)
C2_JoinBarrier ==
    /\ ( \/ SynthInvoked
         \/ synth # "idle"
         \/ synthesisPrompt # <<>>
         \/ TagIndexes({ "fallback-log" }) # {} ) => BasesSettled
    /\ \A i \in TagIndexes({ "fallback-log", "synthesis-chunk" }) :
          \A j \in TagIndexes(BaseChunkTags) : j < i

C2_Witness ==
    /\ synth = "running"
    /\ taskA = "failed"
    /\ taskB = "completed"
    /\ Len(producedA) >= 1
    /\ Len(producedB) >= 2
    /\ \E i, j, k \in DOMAIN events :
          /\ i < j /\ j < k
          /\ events[i].event = "modelB-chunk"
          /\ events[j].event = "modelA-chunk"
          /\ events[k].event = "modelB-chunk"

(***************************************************************************)
(* C3: the fallback decision is a function of (A failed, B failed), a      *)
(* provider having failed exactly when its streaming invocation raised:    *)
(* only A failed -> the synthesizer receives the refinement prompt built   *)
(* from B's text and nothing of A's; only B failed -> the refinement       *)
(* prompt built from A's text and nothing of B's; neither failed -> the    *)
(* synthesis prompt with both texts; both failed -> no prompt is built.    *)
(***************************************************************************)
C3_FallbackDecision ==
    /\ gptFailed = AFailedRun
    /\ geminiFailed = BFailedRun
    /\ (AFailedRun /\ BFailedRun) =>
           (synthesisPrompt = <<>> /\ ~SynthInvoked)
    /\ \A i \in CallsOf({ "synthesizer" }) :
          /\ calls[i].prompt = synthesisPrompt
          /\ (AFailedRun /\ ~BFailedRun) =>
                /\ calls[i].prompt =
                       getRefinementPrompt(req.prompt, BackendTextB,
                           req.constraints, historyForPrompting)
                /\ ~SharesToken(calls[i].prompt, BackendTextA)
          /\ (BFailedRun /\ ~AFailedRun) =>
                /\ calls[i].prompt =
                       getRefinementPrompt(req.prompt, BackendTextA,
                           req.constraints, historyForPrompting)
                /\ ~SharesToken(calls[i].prompt, BackendTextB)
          /\ (~AFailedRun /\ ~BFailedRun) =>
                calls[i].prompt =
                    getSynthesisPrompt(req.prompt, BackendTextA, BackendTextB,
                        req.constraints, historyForPrompting)

C3_Witness ==
    /\ pc = "synthesizing"
    /\ AFailedRun
    /\ ~BFailedRun
    /\ BackendTextA # <<>>
    /\ Len(BackendTextB) >= 2
    /\ SynthInvoked

(***************************************************************************)
(* C4: if the classifier call errors the request is fatal: the stream      *)
(* ends with an error event, no intent is defaulted, no initial-data       *)
(* event is emitted and neither base provider is invoked.                  *)
(***************************************************************************)
C4_ClassifierErrorIsFatal ==
    classifier = "raised" =>
        /\ ended
        /\ LastTag = "error"
        /\ intent = "none"
        /\ TagIndexes({ "initial-data" }) = {}
        /\ CallsOf({ "baseA", "baseB" }) = {}

(***************************************************************************)
(* C5: when both base providers fail, the outcome is reported through a    *)
(* terminal event carrying a fatal message: the stream is not closed       *)
(* silently.                                                               *)
(***************************************************************************)
C5_DualFailureIsReported ==
    (ended /\ AFailedRun /\ BFailedRun) =>
        \E i \in TagIndexes(TerminalTags) :
            /\ i = Len(events)
            /\ "message" \in DOMAIN events[i].data

(***************************************************************************)
(* C6: when both base providers fail the synthesizer is never invoked and  *)
(* no synthesis-chunk event is emitted; conversely, once the base          *)
(* providers have been invoked, the request ends without done only when    *)
(* both of them failed.                                                    *)
(***************************************************************************)
C6_AbortOnlyOnDualFailure ==
    /\ (AFailedRun /\ BFailedRun) =>
           /\ ~SynthInvoked
           /\ synth = "idle"
           /\ TagIndexes({ "synthesis-chunk" }) = {}
    /\ (ended /\ CallsOf({ "baseA", "baseB" }) # {} /\ LastTag # "done") =>
           (AFailedRun /\ BFailedRun)

C6_Witness ==
    /\ pc = "closed"
    /\ AFailedRun
    /\ BFailedRun
    /\ BackendTextA # <<>>
    /\ BackendTextB # <<>>

(***************************************************************************)
(* C7: if the synthesizer invocation fails (at least one base provider     *)
(* having succeeded) the request is not failed: a labelled fallback block  *)
(* is emitted whose content is A's text unless A failed, in which case it  *)
(* is B's, never the text of a failed provider; and a fallback-log event   *)
(* is emitted whose log is the earlier log with the synthesis-failure      *)
(* note appended; done follows.                                            *)
(***************************************************************************)
C7_SynthesizerFailureFallback ==
    synth = "failed" =>
        LET n      == Len(events)
            logs   == EventsTagged("fallback-log")
            chosen == IF ~AFailedRun THEN BackendTextA ELSE BackendTextB
        IN  /\ ~(AFailedRun /\ BFailedRun)
            /\ n >= 3
            /\ events[n].event = "done"
            /\ events[n - 1].event = "synthesis-chunk"
            /\ events[n - 1].data.text = << SynthesisFailedLabel >> \o chosen
            /\ (IF ~AFailedRun THEN taskA ELSE taskB) = "completed"
            /\ events[n - 2].event = "fallback-log"
            /\ Len(logs) = 2
            /\ logs[2].data.log = Append(logs[1].data.log, SynthesisFailedNote)
            /\ TagIndexes({ "error" }) = {}

C7_Witness ==
    /\ synth = "failed"
    /\ AFailedRun
    /\ BackendTextA # <<>>
    /\ BackendTextB # <<>>
    /\ Len(producedS) >= 1

(***************************************************************************)
(* C8: provider-level failures never surface as an error event: in every   *)
(* run in which classification succeeded and at least one base provider    *)
(* succeeded, the stream ends with done and contains no error event,       *)
(* whatever the other base provider and the synthesizer did.               *)
(***************************************************************************)
C8_ProviderFailuresEndWithDone ==
    ( /\ classifier = "returned"
      /\ BasesSettled
      /\ (taskA = "completed" \/ taskB = "completed") ) =>
        /\ TagIndexes({ "error" }) = {}
        /\ ended => LastTag = "done"
        /\ ~ended => pc \in { "generating", "synthesizing" }

C8_Witness ==
    /\ ended
    /\ classifier = "returned"
    /\ taskA = "completed"
    /\ taskB = "failed"
    /\ synth = "failed"

(***************************************************************************)
(* C9: every synthesis-chunk event carries the text of the fragment the    *)
(* synthesizer produced at that position, except the one labelled block    *)
(* of the synthesizer-failure path: base-provider content reaches a        *)
(* synthesis-chunk only if the synthesizer invocation itself raised.       *)
(***************************************************************************)
C9_SynthesisChunksAreSynthesizerText ==
    LET chunks == TextsOf(EventsTagged("synthesis-chunk"))
    IN  /\ Len(chunks) = Len(producedS) + (IF synth = "failed" THEN 1 ELSE 0)
        /\ \A i \in DOMAIN producedS : chunks[i] = BackendFragmentS(i)
        /\ \A i \in DOMAIN chunks :
              ( \/ SharesToken(chunks[i], BackendTextA)
                \/ SharesToken(chunks[i], BackendTextB)
                \/ Includes(chunks[i], SynthesisFailedLabel) ) =>
                  (synth = "failed" /\ i = Len(chunks))

C9_Witness ==
    /\ synth = "completed"
    /\ Len(producedS) >= 2
    /\ BackendTextA # <<>>
    /\ BackendTextB # <<>>

(***************************************************************************)
(* C10 as stated: once A is invoked, the concatenation of the texts of     *)
(* all provider-A chunk events, in emission order, equals the text         *)
(* backend A produced; the same for B.                                     *)
(***************************************************************************)
C10_ChunksConcatenateToBackendText ==
    /\ Flatten(TextsOf(EventsTagged("modelA-chunk"))) = BackendTextA
    /\ Flatten(TextsOf(EventsTagged("modelB-chunk"))) = BackendTextB

(***************************************************************************)
(* C10 amended: the concatenation of the texts of all provider-A chunk     *)
(* events, in emission order, equals the text backend A produced,          *)
(* followed by the error marker when A's invocation raised; it is A's      *)
(* accumulated result followed by that marker. The same for B.             *)
(***************************************************************************)
C10_ChunksConcatenateToBackendTextThenMarker ==
    /\ Flatten(TextsOf(EventsTagged("modelA-chunk")))
         = BackendTextA \o (IF AFailedRun THEN ErrorMarkerA ELSE <<>>)
    /\ Flatten(TextsOf(EventsTagged("modelB-chunk")))
         = BackendTextB \o (IF BFailedRun THEN ErrorMarkerB ELSE <<>>)
    /\ gptResult = BackendTextA
    /\ geminiResult = BackendTextB

C10_Witness ==
    /\ AFailedRun
    /\ taskB = "completed"
    /\ Len(producedA) >= 2
    /\ Len(producedB) >= 2
    /\ \E i, j \in DOMAIN producedA :
          producedA[i].hasContent /\ ~producedA[j].hasContent
    /\ \E i, j \in DOMAIN events :
          /\ i < j
          /\ events[i].event = "modelB-chunk"
          /\ events[j].event = "modelA-chunk"

(***************************************************************************)
(* C11: the two base invocations are launched together (B is in flight     *)
(* while A is, whatever A does), their chunk events interleave, and the    *)
(* chunks of each provider appear in the event stream in the order the     *)
(* provider produced them.                                                 *)
(***************************************************************************)
BackendFragmentA(i) ==
    IF producedA[i].hasContent THEN producedA[i].content ELSE <<>>

C11_ConcurrentLaunchOrderedChunks ==
    /\ (taskA = "idle") <=> (taskB = "idle")
    /\ (CallsOf({ "baseA" }) = {}) <=> (CallsOf({ "baseB" }) = {})
    /\ taskA = "running" => taskB # "idle"
    /\ LET a == TextsOf(EventsTagged("modelA-chunk"))
           b == TextsOf(EventsTagged("modelB-chunk"))
       IN  /\ Len(a) >= Len(producedA)
           /\ Len(b) >= Len(producedB)
           /\ \A i \in DOMAIN producedA : a[i] = BackendFragmentA(i)
           /\ \A i \in DOMAIN producedB : b[i] = producedB[i]

C11_Witness ==
    /\ taskA = "running"
    /\ taskB = "running"
    /\ \E i, j, k \in DOMAIN events :
          /\ i < j /\ j < k
          /\ events[i].event = "modelA-chunk"
          /\ events[j].event = "modelB-chunk"
          /\ events[k].event = "modelA-chunk"
          /\ events[i].data.text # events[k].data.text

(***************************************************************************)
(* C12: failure isolation. Every step of the base-A task (a chunk, its     *)
(* completion, its failure) leaves B's accumulated text, failed flag and   *)
(* task unchanged, and vice versa; after one provider fails the other can  *)
(* still emit its remaining chunks, and it settles with its own outcome.   *)
(***************************************************************************)
StepOfA == taskA = "running" /\ (taskA' # taskA \/ producedA' # producedA)
StepOfB == taskB = "running" /\ (taskB' # taskB \/ producedB' # producedB)

C12_FailureIsolation ==
    [][ /\ StepOfA =>
              UNCHANGED << geminiResult, geminiFailed, taskB, producedB >>
        /\ StepOfB =>
              UNCHANGED << gptResult, gptFailed, taskA, producedA >>
        /\ (taskA = "failed" /\ taskB = "running") =>
              /\ ENABLED BComplete
              /\ ENABLED BRaise
              /\ Len(producedB) < MaxChunks => ENABLED BChunk
        /\ (taskB = "failed" /\ taskA = "running") =>
              /\ ENABLED AComplete
              /\ ENABLED ARaise
              /\ Len(producedA) < MaxChunks =>
                     ENABLED (\E chunk \in AChunksAt(Len(producedA) + 1) :
                                 AChunk(chunk))
        /\ (StepOfA /\ taskA' = "completed") => ~gptFailed'
        /\ (StepOfB /\ taskB' = "completed") => ~geminiFailed'
      ]_vars

C12_Witness ==
    /\ taskA = "failed"
    /\ taskB = "completed"
    /\ ~geminiFailed
    /\ Len(producedB) >= 2
    /\ \E i, j \in DOMAIN events :
          /\ i < j
          /\ events[i].event = "modelA-chunk"
          /\ events[i].data.text = ErrorMarkerA
          /\ events[j].event = "modelB-chunk"
          /\ events[j].data.text = producedB[1]

(***************************************************************************)
(* C13: a request whose prompt is missing or empty is rejected with a 400  *)
(* user error before any pipeline activity: no stream event is emitted     *)
(* and neither the classifier, a base provider nor the synthesizer is      *)
(* invoked.                                                                *)
(***************************************************************************)
C13_EmptyPromptRejected ==
    /\ (req.prompt = <<>> /\ pc \notin { "listening", "received" }) =>
           /\ pc = "rejected"
           /\ httpStatus = 400
           /\ ended
           /\ Len(json) = 1
           /\ json[1].error = "Prompt is required."
    /\ req.prompt = <<>> =>
           /\ events = <<>>
           /\ calls = <<>>
           /\ classifier = "idle"
           /\ taskA = "idle"
           /\ taskB = "idle"
           /\ synth = "idle"
    /\ httpStatus = 400 => req.prompt = <<>>

C13_Witness ==
    /\ pc = "rejected"
    /\ req.prompt = <<>>
    /\ req.chatHistory.present
    /\ req.chatHistory.turns # <<>>
    /\ httpStatus = 400

(***************************************************************************)
(* C14: chatHistory is optional: a request with a non-empty prompt and no  *)
(* chatHistory is processed like one with an empty history, that is the    *)
(* classifier is invoked and the stream carries no error event.            *)
(***************************************************************************)
C14_AbsentHistoryIsProcessed ==
    ( /\ req.prompt # <<>>
      /\ ~req.chatHistory.present
      /\ pc \notin { "listening", "received" } ) =>
        /\ classifier # "idle"
        /\ CallsOf({ "classifier" }) # {}
        /\ TagIndexes({ "error" }) = {}

(***************************************************************************)
(* C15: the handler never changes the caller's conversation history, and   *)
(* every stage sees the same prefix, the history without its last turn,    *)
(* in the original order: the classification prompt, both base calls, the  *)
(* synthesis or refinement prompt and the synthesizer call.                *)
(***************************************************************************)
HistoryPrefix ==
    LET h == req.chatHistory.turns
    IN  IF h = <<>> THEN <<>> ELSE [i \in 1 .. (Len(h) - 1) |-> h[i]]

TurnTextSeen(turn) ==
    IF "parts" \in DOMAIN turn THEN turn.parts[1].text ELSE turn.content

SeesPrefixAsTurns(call) ==
    /\ Len(call.history) = Len(HistoryPrefix)
    /\ \A k \in DOMAIN HistoryPrefix :
          /\ call.history[k].role = HistoryPrefix[k].role
          /\ TurnTextSeen(call.history[k]) = HistoryPrefix[k].content
          /\ "parts" \in DOMAIN call.history[k] => Len(call.history[k].parts) = 1

SeesPrefixAsText(prompt) ==
    LET rendered == formatChatHistory(HistoryPrefix)
    IN  /\ Len(prompt) >= 2 + Len(rendered)
        /\ prompt[2] = "Conversation History:"
        /\ SubSeq(prompt, 3, 2 + Len(rendered)) = rendered
        /\ prompt[3 + Len(rendered)] = "User's Latest Prompt:"

EveryStageSeesPrefix ==
    /\ \A i \in CallsOf({ "classifier" }) : SeesPrefixAsText(calls[i].prompt)
    /\ \A i \in CallsOf({ "baseA", "baseB" }) : SeesPrefixAsTurns(calls[i])
    /\ \A i \in CallsOf({ "synthesizer" }) :
          /\ SeesPrefixAsTurns(calls[i])
          /\ SeesPrefixAsText(calls[i].prompt)
    /\ synthesisPrompt # <<>> => SeesPrefixAsText(synthesisPrompt)

C15_HistoryReadOnlySamePrefix ==
    [][ /\ (pc # "listening" /\ pc' # "listening") => req' = req
        /\ EveryStageSeesPrefix'
      ]_vars

C15_Witness ==
    /\ pc = "closed"
    /\ synth = "completed"
    /\ Len(req.chatHistory.turns) = 3
    /\ Len(HistoryPrefix) = 2
    /\ intent = "CREATIVE"

(***************************************************************************)
(* C17: exactly one intent, FACTUAL or CREATIVE, is chosen per request     *)
(* and it never changes afterwards; the registry has an entry for it; the  *)
(* pipeline name of the one initial-data event, the models of the two      *)
(* base calls and the model of the synthesizer call (at most one per       *)
(* request) are those registered for that intent. A CREATIVE request       *)
(* whose two providers succeed invokes the CREATIVE synthesizer model,     *)
(* emits an empty fallback log and ends with done.                         *)
(***************************************************************************)
ModelsInvokedAs(role) == { calls[i].model : i \in CallsOf({ role }) }

PipelineAsRegistered ==
    IF intent = "none"
    THEN /\ TagIndexes({ "initial-data" }) = {}
         /\ CallsOf({ "baseA", "baseB", "synthesizer" }) = {}
    ELSE /\ intent \in { "FACTUAL", "CREATIVE" }
         /\ intent \in DOMAIN registry
         /\ Cardinality(TagIndexes({ "initial-data" })) = 1
         /\ \A i \in TagIndexes({ "initial-data" }) :
               events[i].data.pipelineName = registry[intent].name
         /\ Cardinality(CallsOf({ "baseA" })) = 1
         /\ Cardinality(CallsOf({ "baseB" })) = 1
         /\ ModelsInvokedAs("baseA") = { registry[intent].config.gpt }
         /\ ModelsInvokedAs("baseB") = { registry[intent].config.gemini }
         /\ Cardinality(CallsOf({ "synthesizer" })) <= 1
         /\ ModelsInvokedAs("synthesizer") \subseteq
               { registry[intent].config.synthesizer }

CreativeScenario ==
    ( /\ intent = "CREATIVE"
      /\ taskA = "completed"
      /\ taskB = "completed"
      /\ pc \in { "synthesizing", "closed" } ) =>
        /\ ModelsInvokedAs("synthesizer") = { "gemini-2.5-pro" }
        /\ \A i \in TagIndexes({ "initial-data" }) :
              events[i].data.pipelineName =
                  "Creative Pipeline (SOTA Base -> SOTA Synth)"
        /\ \E i \in TagIndexes({ "fallback-log" }) :
              /\ events[i].data.log = <<>>
              /\ \A j \in TagIndexes({ "fallback-log" }) : i <= j
        /\ ended => LastTag = "done"

C17_OneIntentRegisteredPipeline ==
    [][ /\ (intent # "none" /\ pc' # "listening") => intent' = intent
        /\ PipelineAsRegistered'
        /\ CreativeScenario'
      ]_vars

C17_Witness ==
    /\ intent = "CREATIVE"
    /\ taskA = "completed"
    /\ taskB = "completed"
    /\ synth = "completed"
    /\ ended
    /\ LastTag = "done"
    /\ ModelsInvokedAs("synthesizer") = { "gemini-2.5-pro" }

(***************************************************************************)
(* C18: the pipeline registry is read-only at request time: whatever       *)
(* requests were served and whatever the providers did, the FACTUAL and    *)
(* CREATIVE entries (names and model choices) are the initial ones.        *)
(***************************************************************************)
C18_RegistryReadOnly ==
    /\ DOMAIN registry = { "FACTUAL", "CREATIVE" }
    /\ \A i \in { "FACTUAL", "CREATIVE" } :
          /\ registry[i].name = DYNAMIC_PIPELINES[i].name
          /\ registry[i].config.gpt = DYNAMIC_PIPELINES[i].config.gpt
          /\ registry[i].config.gemini = DYNAMIC_PIPELINES[i].config.gemini
          /\ registry[i].config.synthesizer =
                 DYNAMIC_PIPELINES[i].config.synthesizer

C18_Witness ==
    /\ pc = "closed"
    /\ intent = "FACTUAL"
    /\ gptFailed
    /\ synth = "failed"
    /\ registry.FACTUAL.config.synthesizer = "gpt-4o"
    /\ registry.CREATIVE.config.synthesizer = "gemini-2.5-pro"

(***************************************************************************)
(* C16: intent parsing. For every classifier output the intent is CREATIVE *)
(* exactly when the last non-empty line of the output, uppercased,         *)
(* contains CREATIVE; for every other output (another last line, garbage,  *)
(* an output that is empty once trimmed) it is FACTUAL, and the request    *)
(* goes on to the base calls without an error.                             *)
(***************************************************************************)
\* the tokens that spell, in any case, a text with "creative" in it
CreativeBearing == { "creative", "Creative", "CREATIVE", "Uncreative" }

Blank == { " ", "\n" }

\* the positions of the last line of t that has a non-blank token
LastNonEmptyLine(t) ==
    LET inked == { i \in DOMAIN t : t[i] \notin Blank }
    IN  IF inked = {} THEN {}
        ELSE LET last == CHOOSE i \in inked : \A j \in inked : j <= i
             IN  { k \in DOMAIN t :
                     /\ \A j \in k .. last : t[j] # "\n"
                     /\ \A j \in last .. k : t[j] # "\n" }

LastLineBearsCreative(t) ==
    \E k \in LastNonEmptyLine(t) : t[k] \in CreativeBearing

C16_IntentParsing ==
    classifier \in { "returned", "raised" } =>
        /\ intent = IF LastLineBearsCreative(classifierAnswer)
                    THEN "CREATIVE"
                    ELSE "FACTUAL"
        /\ httpStatus \notin { 400, 500 }
        /\ CallsOf({ "baseA" }) # {}
        /\ CallsOf({ "baseB" }) # {}

C16_Witness ==
    /\ classifier = "returned"
    /\ classifierAnswer = << "FACTUAL", "\n", "Uncreative" >>
    /\ intent = "CREATIVE"
    /\ pc = "closed"

(***************************************************************************)
(* C19: in the non-streaming handler a base provider is treated as failed  *)
(* in the fallback decision exactly when its call raised an error: a call  *)
(* that returned is never treated as failed, whatever its text contains.   *)
(***************************************************************************)
C19_FailedIffCallRaised ==
    pc \in { "synthesizing", "closed" } =>
        /\ gptFailed <=> taskA = "failed"
        /\ geminiFailed <=> taskB = "failed"

(***************************************************************************)
(* C20: in the non-streaming handler, when at least one base provider      *)
(* succeeded, finalResponse is the synthesizer's output whenever the       *)
(* synthesizer call returned; it is a raw base result (A's unless A        *)
(* failed, else B's) only when the synthesizer call raised, and only then  *)
(* does fallbackLog carry the synthesis-failure note.                      *)
(***************************************************************************)
C20_FinalResponseIsSynthesisUnlessRaised ==
    ( /\ pc = "closed"
      /\ taskA = "completed" \/ taskB = "completed"
      /\ synth \in { "completed", "failed" } ) =>
        LET body == json[Len(json)]
            noted == \E i \in DOMAIN body.fallbackLog :
                        body.fallbackLog[i] = JsonSynthesisFailedNote[1]
        IN  IF synth = "completed"
            THEN /\ body.finalResponse = producedS[1]
                 /\ ~noted
            ELSE /\ body.finalResponse =
                        IF taskA # "failed" THEN producedA[1] ELSE producedB[1]
                 /\ noted

(***************************************************************************)
(* C21: in the non-streaming handler every request with a non-empty prompt *)
(* yields exactly one response. When both base providers failed it is a    *)
(* fatal-marker record with the six fields of the normal aggregate record  *)
(* (finalResponse, gptResult, geminiResult, pipelineName, fallbackLog,     *)
(* classifierReasoning), a literal fatal message as finalResponse, and no  *)
(* synthesizer call has been made.                                         *)
(***************************************************************************)
AggregateFields ==
    { "finalResponse", "gptResult", "geminiResult", "pipelineName",
      "fallbackLog", "classifierReasoning" }

C21_OneResponseFatalRecordOnDualFailure ==
    /\ Len(json) <= 1
    /\ (pc = "closed" /\ req.prompt # <<>>) =>
           /\ Len(json) = 1
           /\ httpStatus = 200
           /\ DOMAIN json[1] = AggregateFields
    /\ (taskA = "failed" /\ taskB = "failed") =>
           /\ pc \in { "generating", "closed" }
           /\ synth = "idle"
           /\ CallsOf({ "synthesizer" }) = {}
           /\ pc = "closed" =>
                 /\ json[1].finalResponse =
                        << "FATAL: Both primary models failed. Please try again." >>
                 /\ json[1].gptResult = producedA[1]
                 /\ json[1].geminiResult = producedB[1]
                 /\ json[1].pipelineName \in
                        { "Factual Pipeline (SOTA Base -> Quick Synth)",
                          "Creative Pipeline (SOTA Base -> SOTA Synth)" }

C21_Witness ==
    /\ pc = "closed"
    /\ taskA = "failed"
    /\ taskB = "failed"
    /\ Len(json) = 1
    /\ json[1].fallbackLog = << "Both base models failed." >>
    /\ intent = "CREATIVE"

(***************************************************************************)
(* C24: for every outcome of the fallback decision a fallback-log event is *)
(* emitted, after both base providers have settled and before the          *)
(* synthesizer is invoked; its log is empty exactly when neither provider  *)
(* failed, says that A failed and B is refined when only A failed, and     *)
(* that B failed and A is refined when only B failed.                      *)
(***************************************************************************)
C24_FallbackLogForEveryDecision ==
    /\ TagIndexes({ "fallback-log" }) # {} => BasesSettled
    /\ SynthInvoked => TagIndexes({ "fallback-log" }) # {}
    /\ (BasesSettled /\ pc \in { "synthesizing", "closed" }) =>
          LET logs == EventsTagged("fallback-log")
          IN  /\ Len(logs) >= 1
              /\ (logs[1].data.log = <<>>) <=> (~AFailedRun /\ ~BFailedRun)
              /\ (AFailedRun /\ ~BFailedRun) =>
                     logs[1].data.log =
                         << "Model A failed. Refining Model B's response." >>
              /\ (BFailedRun /\ ~AFailedRun) =>
                     logs[1].data.log =
                         << "Model B failed. Refining Model A's response." >>

(***************************************************************************)
(* C25: the handler's phase only moves forward (received, classifying,     *)
(* generating, synthesizing, closed) until the next request, a closed      *)
(* stream gets no further event, and the event stream reflects the order:  *)
(* the classifying status event is first, initial-data is emitted once     *)
(* and before any base-provider chunk, every base-provider chunk precedes  *)
(* the first fallback-log event, every synthesis-chunk follows a           *)
(* fallback-log event and precedes done, and a terminal event is last.     *)
(***************************************************************************)
PhaseRank(p) ==
    CASE p = "listening"    -> 0
      [] p = "received"     -> 1
      [] p = "classifying"  -> 2
      [] p = "generating"   -> 3
      [] p = "synthesizing" -> 4
      [] OTHER              -> 5

ClassifyingStatus ==
    [ event |-> "status", data |-> [ message |-> "Classifying prompt intent..." ] ]

EventOrder ==
    /\ \A i \in DOMAIN events :
          /\ events[i] = ClassifyingStatus => i = 1
          /\ events[i].event # "error" => events[1] = ClassifyingStatus
    /\ Cardinality(TagIndexes({ "initial-data" })) <= 1
    /\ intent # "none" => Cardinality(TagIndexes({ "initial-data" })) = 1
    /\ \A j \in TagIndexes(BaseChunkTags) :
          \E i \in TagIndexes({ "initial-data" }) : i < j
    /\ \A i \in TagIndexes(BaseChunkTags) :
          \A j \in TagIndexes({ "fallback-log" }) : i < j
    /\ \A i \in TagIndexes({ "synthesis-chunk" }) :
          /\ \E j \in TagIndexes({ "fallback-log" }) : j < i
          /\ \A k \in TagIndexes({ "done" }) : i < k
    /\ \A k \in TagIndexes(TerminalTags) : k = Len(events)

C25_PhasesOnlyForward ==
    [][ /\ pc' # "listening" => PhaseRank(pc) <= PhaseRank(pc')
        /\ (ended /\ pc' # "listening") => (ended' /\ events' = events)
        /\ EventOrder'
      ]_vars

C25_Witness ==
    /\ pc = "closed"
    /\ synth = "completed"
    /\ LastTag = "done"
    /\ Len(EventsTagged("modelA-chunk")) >= 2
    /\ Len(EventsTagged("modelB-chunk")) >= 2
    /\ Len(EventsTagged("synthesis-chunk")) >= 2

(***************************************************************************)
(* C26: when a base provider's streaming call raises, before the first     *)
(* fragment or midway, its failed flag is set, exactly one error-marker    *)
(* chunk is emitted for it and that is the provider's last chunk; the      *)
(* marker is not appended to the provider's accumulated result, and        *)
(* neither the marker nor the failed provider's partial text appears in a  *)
(* synthesis or refinement prompt or in a fallback block.                  *)
(***************************************************************************)
MarkerChunks(tag, marker) ==
    { i \in TagIndexes({ tag }) : events[i].data.text = marker }

CleanOf(text, marker, partial) ==
    /\ ~SharesToken(text, marker)
    /\ ~SharesToken(text, partial)

FailureSealed(failedRun, flag, tag, marker, result, backendText) ==
    IF failedRun
    THEN /\ flag
         /\ Cardinality(MarkerChunks(tag, marker)) = 1
         /\ \A i \in MarkerChunks(tag, marker) :
               \A j \in TagIndexes({ tag }) : j <= i
         /\ result = backendText
         /\ ~SharesToken(result, marker)
         /\ CleanOf(synthesisPrompt, marker, backendText)
         /\ \A i \in CallsOf({ "synthesizer" }) :
               CleanOf(calls[i].prompt, marker, backendText)
         /\ \A i \in TagIndexes({ "synthesis-chunk" }) :
               CleanOf(events[i].data.text, marker, backendText)
    ELSE MarkerChunks(tag, marker) = {}

C26_FailedProviderSealed ==
    /\ FailureSealed(AFailedRun, gptFailed, "modelA-chunk", ErrorMarkerA,
                     gptResult, BackendTextA)
    /\ FailureSealed(BFailedRun, geminiFailed, "modelB-chunk", ErrorMarkerB,
                     geminiResult, BackendTextB)

C26_Witness ==
    /\ pc = "closed"
    /\ BFailedRun
    /\ taskA = "completed"
    /\ BackendTextB # <<>>
    /\ BackendTextA # <<>>
    /\ synth = "failed"
    /\ Len(producedS) = 0

(***************************************************************************)
(* C27: when the synthesizer fails after it has emitted synthesis-chunk    *)
(* events, those chunks are not retracted: the synthesis-chunk sequence    *)
(* is the partial synthesizer output followed by exactly one labelled      *)
(* fallback block, no synthesis-chunk comes after it and done follows.     *)
(***************************************************************************)
C27_PartialSynthesisKept ==
    synth = "failed" =>
        LET chunks == TextsOf(EventsTagged("synthesis-chunk"))
            n      == Len(producedS)
            blocks == { i \in DOMAIN chunks :
                          chunks[i] # <<>> /\ chunks[i][1] = SynthesisFailedLabel }
        IN  /\ Len(chunks) = n + 1
            /\ \A i \in 1 .. n : chunks[i] = BackendFragmentS(i)
            /\ blocks = { n + 1 }
            /\ Len(events) >= 2
            /\ events[Len(events)].event = "done"
            /\ events[Len(events) - 1].event = "synthesis-chunk"
            /\ events[Len(events) - 1].data.text = chunks[n + 1]
            /\ ended

C27_Witness ==
    /\ synth = "failed"
    /\ Len(producedS) = 2
    /\ producedS[1].hasContent
    /\ LastTag = "done"
    /\ ~AFailedRun
    /\ ~BFailedRun

(***************************************************************************)
(* C23: termination. If every provider invocation eventually settles,      *)
(* every request with a non-empty prompt eventually has its stream closed, *)
(* under every interleaving of the two base tasks; in particular the       *)
(* handler never waits forever after one base provider has failed.         *)
(***************************************************************************)
StreamClosed == pc = "closed" /\ ended

C23_EveryRequestCloses ==
    /\ (pc = "received" /\ req.prompt # <<>>) ~> StreamClosed
    /\ (pc = "generating" /\ (AFailedRun \/ BFailedRun)) ~> StreamClosed

C23_Witness ==
    /\ StreamClosed
    /\ AFailedRun
    /\ taskB = "completed"
    /\ Len(producedB) = MaxChunks
    /\ synth = "completed"

(***************************************************************************)
(* C28: history translation is a pure mapping. For both backend schemas    *)
(* convertHistoryForApi returns a sequence of the input's length and turn  *)
(* order, each output turn carrying the input turn's role and content (as  *)
(* role/content for one backend, as role/parts with a single text part     *)
(* for the other); an absent history gives the empty sequence; the input   *)
(* history is left as it was.                                              *)
(***************************************************************************)
C28_HistoryTranslationIsPureMapping ==
    (evaluated.fn = "convertHistoryForApi"
        /\ evaluated.apiType \in { "openai", "gemini" }) =>
        LET given == evaluated.history
            out   == evaluated.result
        IN  /\ evaluated.historyAfter = given
            /\ ~given.present => out = <<>>
            /\ Len(out) = Len(given.turns)
            /\ \A i \in 1 .. Len(out) :
                  /\ out[i].role = given.turns[i].role
                  /\ evaluated.apiType = "openai" =>
                        /\ DOMAIN out[i] = { "role", "content" }
                        /\ out[i].content = given.turns[i].content
                  /\ evaluated.apiType = "gemini" =>
                        /\ DOMAIN out[i] = { "role", "parts" }
                        /\ Len(out[i].parts) = 1
                        /\ DOMAIN out[i].parts[1] = { "text" }
                        /\ out[i].parts[1].text = given.turns[i].content

C28_Witness ==
    /\ evaluated.fn = "convertHistoryForApi"
    /\ evaluated.apiType = "gemini"
    /\ Len(evaluated.history.turns) = 2
    /\ evaluated.history.turns[1].role = "user"
    /\ evaluated.history.turns[2].role = "assistant"
    /\ evaluated.history.turns[1].content # evaluated.history.turns[2].content
    /\ Len(evaluated.result) = 2

(***************************************************************************)
(* C29: prompt composition. The synthesis and refinement prompts contain   *)
(* the CRITICAL INSTRUCTION clause, followed by the constraint, exactly    *)
(* when the constraint is non-empty (an empty or absent constraint adds    *)
(* no text); their history section is the no-previous-conversation         *)
(* placeholder exactly when the history is absent or empty, and otherwise  *)
(* one role-labelled line per turn in the original order.                  *)
(***************************************************************************)
ClauseAt(text) ==
    { i \in DOMAIN text :
        text[i] = "CRITICAL INSTRUCTION: Adhere to this constraint: " }

\* the tokens between the two section titles
HistorySection(text) ==
    LET from == CHOOSE i \in DOMAIN text : text[i] = "Conversation History:"
        to   == CHOOSE i \in DOMAIN text : text[i] = "User's Latest Prompt:"
    IN  SubSeq(text, from + 1, to - 1)

\* one line per turn: label, ": ", the content, and "\n" between lines
IsTranscriptOf(section, turns) ==
    /\ Len(section) = 4 * Len(turns) - 1
    /\ \A k \in 1 .. Len(turns) :
          /\ section[4 * k - 3] =
                 (IF turns[k].role = "user" THEN "User" ELSE "Assistant")
          /\ section[4 * k - 2] = ": "
          /\ << section[4 * k - 1] >> = turns[k].content
          /\ k < Len(turns) => section[4 * k] = "\n"

C29_PromptComposition ==
    evaluated.fn \in { "getSynthesisPrompt", "getRefinementPrompt" } =>
        LET text       == evaluated.result
            constraint == evaluated.constraints
            given      == evaluated.history
            nonEmpty   == constraint.present /\ constraint.text # <<>>
            noHistory  == ~given.present \/ given.turns = <<>>
        IN  /\ (ClauseAt(text) # {}) <=> nonEmpty
            /\ Cardinality(ClauseAt(text)) <= 1
            /\ \A i \in ClauseAt(text) :
                  SubSeq(text, i + 1, i + Len(constraint.text)) = constraint.text
            /\ ~nonEmpty => \A i \in DOMAIN text : text[i] # "c"
            /\ (HistorySection(text) = << "No previous conversation." >>)
                   <=> noHistory
            /\ ~noHistory => IsTranscriptOf(HistorySection(text), given.turns)

C29_Witness ==
    /\ evaluated.fn = "getRefinementPrompt"
    /\ evaluated.constraints.present
    /\ evaluated.constraints.text # <<>>
    /\ evaluated.history.present
    /\ Len(evaluated.history.turns) = 2
    /\ evaluated.history.turns[1].role = "assistant"
    /\ evaluated.history.turns[2].role = "user"
    /\ ClauseAt(evaluated.result) # {}

(***************************************************************************)
(* C22: in a batch run, where the test cases run concurrently and share    *)
(* one cache keyed by (prompt, base model), each backend is called at most *)
(* once per (prompt, model) pair, also when a prompt occurs in more than   *)
(* one test case, and every test case with that key uses the same result.  *)
(***************************************************************************)
BaseCallsFor(prompt, modelName) ==
    { k \in DOMAIN batch.calls :
        /\ batch.calls[k].role \in { "baseA", "baseB" }
        /\ batch.calls[k].prompt = prompt
        /\ batch.calls[k].model = modelName }

====
